---- MODULE Spec2Model ----
(***************************************************************************)
(* The photo upload workflow of destitutesofindia: HomePage mounts the     *)
(* UploadModal component, which holds the capture source (camera stream or *)
(* file picker), the geolocation probe and the upload orchestrator         *)
(* (submit -> responsibility warning -> blob write -> document write).     *)
(*                                                                         *)
(* The browser runs one handler at a time (single-threaded event loop), so *)
(* every handler and every continuation of an async function between two   *)
(* awaits is one atomic action.  A provider call that is awaited is a      *)
(* pending request in the state; its resolution or rejection is a separate *)
(* action.  React discards the state of an unmounted component and ignores *)
(* state setters called on it: each pending request remembers whether the  *)
(* component instance that issued it is still mounted.                     *)
(*                                                                         *)
(* Three more components are modelled, each under a specification of its   *)
(* own: ImageFeed (the listener on the 'photos' collection the             *)
(* orchestrator writes), AuthPage (the email form) and DonatePage (the     *)
(* donation amount).                                                       *)
(***************************************************************************)
EXTENDS Naturals, Sequences, FiniteSets

\* ------------------------------------------------------------------ bounds

\* Spec: upload attempts (Confirm & Post presses that reach the blob write)
\* per run, and geolocation requests pending at the same time.
MaxAttempts == 1
MaxProbes == 2
\* FlowSpec: the same two, then the getUserMedia requests pending at the same
\* time and the media streams live or referenced at the same time.
FlowAttempts == 1
FlowProbes == 1
MaxCameraRequests == 1
MaxStreams == 1
\* ReopenSpec: upload attempts per run.
ReopenAttempts == 2
\* CameraSpec: getUserMedia requests pending at once, and streams alive at
\* once.
CameraRequests == 2
CameraStreams == 2
\* FeedSpec: the documents written while the feed is observed.
MaxNewDocs == 2
\* AuthSpec: the identity-provider calls made per run.
MaxAuthCalls == 2
\* ProviderSpec and the specifications built on it: the profile fetches of
\* one AuthProvider pending at the same time.
MaxFetches == 2
\* DonateSpec: the payments completed per run.
MaxPayments == 1

\* ------------------------------------------------------- program constants

\* maxLength of the description textarea.
DescriptionMaxLength == 500
\* limit(50) of the feed's query.
PageSize == 50
\* The shortest password handleEmailAuth lets through.
MinPasswordLength == 6
\* The largest donation handleCustomAmount lets through, in rupees.
MaxDonationAmount == 100000
\* The lengths validateForm of UserProfileCompletion accepts.
MinUsernameLength == 3
MaxUsernameLength == 20
PhoneNumberLength == 10

\* ------------------------------------------------------------------ values

NoUser == "null"
Users == {"u1"}

NoFile == "null"
PngFile == "a.png"
TextFile == "notes.txt"
CapturedFile == "captured-photo.jpg"
\* What the file picker can hand to handleFileSelect.
PickerFiles == {PngFile, TextFile}

\* file.type, as <<type, subtype>>.
FileType(f) ==
    CASE f = PngFile -> <<"image", "png">>
      [] f = TextFile -> <<"text", "plain">>
      [] f = CapturedFile -> <<"image", "jpeg">>
      [] OTHER -> <<>>

\* file.type.startsWith('image/')
IsImageType(t) == Len(t) >= 1 /\ t[1] = "image"

NoPreview == "null"
\* URL.createObjectURL(file): a handle onto that file.
CreateObjectURL(f) == f

NoLocation == "null"
\* Positions the device can report.
Coords == {"P1", "P2"}
Latitude(p) == IF p = "P1" THEN 12971600 ELSE 28613900
Longitude(p) == IF p = "P1" THEN 77594600 ELSE 77209000

NoStream == 0

\* A text is `pad` whitespace characters followed by `core` characters that
\* neither begin nor end with whitespace.
EmptyText == [core |-> 0, pad |-> 0]
TextLength(t) == t.core + t.pad
Min(a, b) == IF a <= b THEN a ELSE b
\* The first n characters of t.
Truncate(t, n) ==
    LET w == Min(t.pad, n)
    IN  [core |-> Min(t.core, n - w), pad |-> w]
\* String.prototype.trim
Trim(t) == [core |-> t.core, pad |-> 0]
\* What the user may type or paste into the description field.
DescInputs ==
    {EmptyText, [core |-> 600, pad |-> 3]}

NoToast == "none"

VARIABLES
    currentUser,        \* AuthContext: the signed-in user, or NoUser
    geolocationSupported, \* navigator.geolocation exists in this browser
    showUploadModal,    \* HomePage: the UploadModal is mounted
    modal,              \* the state of the mounted UploadModal
    probes,             \* pending getCurrentPosition requests
    cameraRequests,     \* pending getUserMedia requests
    liveStreams,        \* media streams with an active track
    pendingCapture,     \* pending canvas.toBlob callbacks
    attempts,           \* the runs of confirmUpload that reached the blob write
    storage,            \* blob storage: the paths written
    photos,             \* document database: the 'photos' collection
    toast,              \* the toast.error raised by the latest step, if any
    feed,               \* ImageFeed: the `photos` and `loading` state
    listener,           \* ImageFeed: the onSnapshot subscription
    authPage,           \* the state of AuthPage and its provider calls
    donatePage,         \* the state of DonatePage
    sessions,           \* per browser: the state of AuthProvider
    users,              \* document database: the 'users' collection
    profilePages        \* per browser: the state of UserProfileCompletion

vars == <<currentUser, geolocationSupported, showUploadModal, modal, probes,
          cameraRequests, liveStreams, pendingCapture, attempts, storage,
          photos, toast, feed, listener, authPage, donatePage, sessions,
          users, profilePages>>

\* The state of the components outside the upload modal.
pageVars == <<feed, listener, authPage, donatePage, sessions, users,
              profilePages>>
\* The state of the AuthProvider and the profile completion page of every
\* browser, and the collection of profiles.
profileVars == <<sessions, users, profilePages>>
\* The state of the upload workflow, the collection and the toast aside.
uploadVars == <<currentUser, geolocationSupported, showUploadModal, modal,
                probes, cameraRequests, liveStreams, pendingCapture, attempts,
                storage>>

\* useState initial values of UploadModal.
InitModal ==
    [selectedFile |-> NoFile,
     preview |-> NoPreview,
     isAnonymous |-> FALSE,
     description |-> EmptyText,
     showWarning |-> FALSE,
     isUploading |-> FALSE,
     location |-> NoLocation,
     showCamera |-> FALSE,
     stream |-> NoStream,
     cameraError |-> FALSE]

\* Requests counted by whether the instance that issued them is mounted.
NoRequests == [live |-> 0, stale |-> 0]
Pending(r) == r.live + r.stale
\* All requests of the instance being unmounted become stale.
Orphan(r) == [live |-> 0, stale |-> r.live + r.stale]

\* The accounts of the identity provider and the browsers the site runs
\* in; MainClient is the browser the other components of this module run in.
Accounts == {"u1", "u2"}
Clients == {"c1", "c2"}
MainClient == "c1"

\* A value that may be null is a sequence: empty for null, else one element.
Null == <<>>
Some(v) == <<v>>

\* isProfileComplete() of a context value: userProfile && its flag.
IsProfileComplete(userProfile) ==
    userProfile # Null /\ userProfile[1].isProfileComplete

\* An input value is the sequence of its characters.
EmptyInput == <<>>

\* useState initial values of ImageFeed; the listener is "off" until the
\* component mounts.
InitFeed == [photos |-> <<>>, loading |-> TRUE]

\* useState initial values of AuthPage, with the route shown, the provider
\* calls the page has made and the one it awaits, the userProfile that the
\* isProfileComplete of the running handler closed over, and the user the
\* provider call resolved with.
InitAuthPage ==
    [route |-> "/auth",
     isSignUp |-> FALSE,
     formData |-> [email |-> EmptyInput,
                   password |-> EmptyInput,
                   confirmPassword |-> EmptyInput],
     isLoading |-> FALSE,
     calls |-> <<>>,
     pending |-> "none",
     closure |-> Null,
     result |-> NoUser]

\* useState initial values of AuthProvider, with the pending getDoc calls of
\* fetchUserProfile (`first` marks the one of the first auth-state callback)
\* and whether a callback has been delivered.
InitSession ==
    [currentUser |-> NoUser,
     userProfile |-> Null,
     loading |-> TRUE,
     fetches |-> <<>>,
     started |-> FALSE]

\* useState initial values of UserProfileCompletion, not mounted, with the
\* position of its handleSubmit and the context value that run closed over.
InitProfilePage ==
    [mounted |-> FALSE,
     formData |-> [username |-> EmptyInput, phoneNumber |-> EmptyInput],
     isLoading |-> FALSE,
     pc |-> "idle",
     submitted |-> Null]

\* NaN, next to the numbers <<n>>.
NaN == <<>>
\* The checkout of the payment provider is closed.
NoCheckout == [open |-> FALSE, amount |-> NaN]

\* useState initial values of DonatePage, with the state of the payment
\* provider's script and checkout and the payments completed.
InitDonatePage ==
    [selectedAmount |-> 500,
     customAmount |-> EmptyInput,
     isProcessing |-> FALSE,
     isSuccess |-> FALSE,
     razorpayLoaded |-> FALSE,
     checkout |-> NoCheckout,
     payments |-> <<>>]

OrphanCaptures(cs) == {[c EXCEPT !.mounted = FALSE] : c \in cs}
OrphanAttempts(as) == [i \in DOMAIN as |-> [as[i] EXCEPT !.mounted = FALSE]]

Init ==
    /\ currentUser \in Users \cup {NoUser}
    /\ geolocationSupported \in BOOLEAN
    /\ showUploadModal = FALSE
    /\ modal = InitModal
    /\ probes = NoRequests
    /\ cameraRequests = NoRequests
    /\ liveStreams = {}
    /\ pendingCapture = {}
    /\ attempts = <<>>
    /\ storage = {}
    /\ photos = {}
    /\ toast = NoToast
    /\ feed = InitFeed
    /\ listener = "off"
    /\ authPage = InitAuthPage
    /\ donatePage = InitDonatePage
    /\ sessions = [c \in Clients |-> InitSession]
    /\ users = [u \in Accounts |-> Null]
    /\ profilePages = [c \in Clients |-> InitProfilePage]

\* The controls of the form can be used: the modal is mounted and the
\* responsibility warning (a full-screen overlay above the form) is closed.
FormUsable == showUploadModal /\ ~modal.showWarning

\* ------------------------------------------------------------ AuthContext

\* onAuthStateChanged delivers a sign-in or a sign-out.
AuthStateChanged(u) ==
    /\ u # currentUser
    /\ currentUser' = u
    /\ toast' = NoToast
    /\ UNCHANGED <<geolocationSupported, showUploadModal, modal, probes,
                   cameraRequests, liveStreams, pendingCapture, attempts,
                   storage, photos>>
    /\ UNCHANGED pageVars

\* --------------------------------------------------------------- HomePage

\* handleCameraClick behind the camera button (disabled without a user).
HandleCameraClick ==
    /\ ~showUploadModal
    /\ currentUser # NoUser
    /\ showUploadModal' = TRUE
    /\ modal' = InitModal
    /\ toast' = NoToast
    /\ UNCHANGED <<currentUser, geolocationSupported, probes, cameraRequests,
                   liveStreams, pendingCapture, attempts, storage, photos>>
    /\ UNCHANGED pageVars

\* ------------------------------------------- UploadModal: capture source

\* The smallest stream id neither live nor referenced by a closure or state.
FreeStreams(n) ==
    (1..n) \ (liveStreams \cup {modal.stream}
               \cup {c.stream : c \in pendingCapture})
NewStream(n) == CHOOSE s \in FreeStreams(n) : \A t \in FreeStreams(n) : s <= t

\* track.stop() on every track of stream s (nothing for no stream).
StopTracks(s) == liveStreams \ {s}

\* startCamera up to its await: behind Take Photo (camera view closed) and
\* behind Retry Camera (camera view open, error shown).
StartCamera(maxPending) ==
    /\ FormUsable
    /\ ~modal.showCamera \/ modal.cameraError
    /\ Pending(cameraRequests) < maxPending
    /\ modal' = [modal EXCEPT !.cameraError = FALSE]
    /\ cameraRequests' = [cameraRequests EXCEPT !.live = @ + 1]
    /\ toast' = NoToast
    /\ UNCHANGED <<currentUser, geolocationSupported, showUploadModal, probes,
                   liveStreams, pendingCapture, attempts, storage, photos>>
    /\ UNCHANGED pageVars

\* getUserMedia resolves with a new stream; startCamera continues.
GetUserMediaResolves(mounted, maxStreams) ==
    /\ IF mounted THEN cameraRequests.live > 0 ELSE cameraRequests.stale > 0
    /\ FreeStreams(maxStreams) # {}
    /\ liveStreams' = liveStreams \cup {NewStream(maxStreams)}
    /\ cameraRequests' =
         IF mounted THEN [cameraRequests EXCEPT !.live = @ - 1]
         ELSE [cameraRequests EXCEPT !.stale = @ - 1]
    /\ modal' =
         IF mounted
         THEN [modal EXCEPT !.stream = NewStream(maxStreams),
                            !.showCamera = TRUE]
         ELSE modal
    /\ toast' = NoToast
    /\ UNCHANGED <<currentUser, geolocationSupported, showUploadModal, probes,
                   pendingCapture, attempts, storage, photos>>
    /\ UNCHANGED pageVars

\* getUserMedia rejects (permission denied, no camera); the catch block runs.
GetUserMediaRejects(mounted) ==
    /\ IF mounted THEN cameraRequests.live > 0 ELSE cameraRequests.stale > 0
    /\ cameraRequests' =
         IF mounted THEN [cameraRequests EXCEPT !.live = @ - 1]
         ELSE [cameraRequests EXCEPT !.stale = @ - 1]
    /\ modal' = IF mounted THEN [modal EXCEPT !.cameraError = TRUE] ELSE modal
    /\ toast' = "camera-failed"
    /\ UNCHANGED <<currentUser, geolocationSupported, showUploadModal, probes,
                   liveStreams, pendingCapture, attempts, storage, photos>>
    /\ UNCHANGED pageVars

\* video.play() rejects or the video element raises onError.
VideoError ==
    /\ showUploadModal
    /\ modal.showCamera
    /\ modal.stream # NoStream
    /\ ~modal.cameraError
    /\ modal' = [modal EXCEPT !.cameraError = TRUE]
    /\ toast' = NoToast
    /\ UNCHANGED <<currentUser, geolocationSupported, showUploadModal, probes,
                   cameraRequests, liveStreams, pendingCapture, attempts,
                   storage, photos>>
    /\ UNCHANGED pageVars

\* stopCamera as run by a handler that closed over stream s.
StopCamera(m, s) ==
    [m EXCEPT !.stream = IF s # NoStream THEN NoStream ELSE @,
              !.showCamera = FALSE,
              !.cameraError = FALSE]

\* The close button of the camera view.
ClickStopCamera ==
    /\ FormUsable
    /\ modal.showCamera
    /\ liveStreams' = StopTracks(modal.stream)
    /\ modal' = StopCamera(modal, modal.stream)
    /\ toast' = NoToast
    /\ UNCHANGED <<currentUser, geolocationSupported, showUploadModal, probes,
                   cameraRequests, pendingCapture, attempts, storage, photos>>
    /\ UNCHANGED pageVars

\* capturePhoto: the capture button (disabled on an error or without a
\* stream) sizes the canvas to the video, draws the frame and asks the canvas
\* for a blob.  The button does not wait for the video: before its first
\* frame videoWidth is 0, and toBlob of an empty canvas yields null.
CapturePhoto ==
    /\ FormUsable
    /\ modal.showCamera
    /\ ~modal.cameraError
    /\ modal.stream # NoStream
    /\ pendingCapture = {}
    /\ \E frame \in BOOLEAN :
           pendingCapture' = {[stream |-> modal.stream, mounted |-> TRUE,
                               blob |-> frame]}
    /\ toast' = NoToast
    /\ UNCHANGED <<currentUser, geolocationSupported, showUploadModal, modal,
                   probes, cameraRequests, liveStreams, attempts, storage,
                   photos>>
    /\ UNCHANGED pageVars

\* The toBlob callback of capturePhoto: keep the photo, stop the camera.
\* With a null blob, new File([null], ...) is still a file and is kept, and
\* URL.createObjectURL(null) throws: the callback ends before setPreview and
\* stopCamera.
ToBlobCallback(c) ==
    /\ c \in pendingCapture
    /\ pendingCapture' = pendingCapture \ {c}
    /\ liveStreams' = IF c.blob THEN StopTracks(c.stream) ELSE liveStreams
    /\ modal' =
         IF ~c.mounted
         THEN modal
         ELSE IF c.blob
         THEN StopCamera([modal EXCEPT !.selectedFile = CapturedFile,
                                       !.preview = CreateObjectURL(CapturedFile)],
                         c.stream)
         ELSE [modal EXCEPT !.selectedFile = CapturedFile]
    /\ toast' = NoToast
    /\ UNCHANGED <<currentUser, geolocationSupported, showUploadModal, probes,
                   cameraRequests, attempts, storage, photos>>
    /\ UNCHANGED pageVars

\* Fault variant of HandleFileSelect: a rejected file drops the held image.
HandleFileSelectDrops(f) ==
    /\ FormUsable
    /\ ~modal.showCamera
    /\ IF IsImageType(FileType(f))
       THEN /\ modal' = [modal EXCEPT !.selectedFile = f,
                                      !.preview = CreateObjectURL(f)]
            /\ toast' = NoToast
       ELSE /\ modal' = [modal EXCEPT !.selectedFile = NoFile,
                                      !.preview = NoPreview]
            /\ toast' = "not-image"
    /\ UNCHANGED <<currentUser, geolocationSupported, showUploadModal, probes,
                   cameraRequests, liveStreams, pendingCapture, attempts,
                   storage, photos>>
    /\ UNCHANGED pageVars

\* handleFileSelect: the hidden file input of the closed-camera view.
HandleFileSelect(f) ==
    /\ FormUsable
    /\ ~modal.showCamera
    /\ IF IsImageType(FileType(f))
       THEN /\ modal' = [modal EXCEPT !.selectedFile = f,
                                      !.preview = CreateObjectURL(f)]
            /\ toast' = NoToast
       ELSE /\ modal' = modal
            /\ toast' = "not-image"
    /\ UNCHANGED <<currentUser, geolocationSupported, showUploadModal, probes,
                   cameraRequests, liveStreams, pendingCapture, attempts,
                   storage, photos>>
    /\ UNCHANGED pageVars

\* The remove-image button of the preview.
RemoveImage ==
    /\ FormUsable
    /\ modal.preview # NoPreview
    /\ modal' = [modal EXCEPT !.selectedFile = NoFile, !.preview = NoPreview]
    /\ toast' = NoToast
    /\ UNCHANGED <<currentUser, geolocationSupported, showUploadModal, probes,
                   cameraRequests, liveStreams, pendingCapture, attempts,
                   storage, photos>>
    /\ UNCHANGED pageVars

\* ---------------------------------------- UploadModal: geolocation probe

\* getCurrentLocation behind the location button (disabled once a fix is
\* held).
GetCurrentLocation(maxPending) ==
    /\ FormUsable
    /\ modal.location = NoLocation
    /\ IF ~geolocationSupported
       THEN /\ toast' = "geolocation-unsupported"
            /\ probes' = probes
       ELSE /\ Pending(probes) < maxPending
            /\ toast' = NoToast
            /\ probes' = [probes EXCEPT !.live = @ + 1]
    /\ UNCHANGED <<currentUser, geolocationSupported, showUploadModal, modal,
                   cameraRequests, liveStreams, pendingCapture, attempts,
                   storage, photos>>
    /\ UNCHANGED pageVars

\* The success callback of getCurrentPosition.
PositionSuccess(mounted, p) ==
    /\ IF mounted THEN probes.live > 0 ELSE probes.stale > 0
    /\ probes' = IF mounted THEN [probes EXCEPT !.live = @ - 1]
                 ELSE [probes EXCEPT !.stale = @ - 1]
    /\ modal' = IF mounted THEN [modal EXCEPT !.location = p] ELSE modal
    /\ toast' = NoToast
    /\ UNCHANGED <<currentUser, geolocationSupported, showUploadModal,
                   cameraRequests, liveStreams, pendingCapture, attempts,
                   storage, photos>>
    /\ UNCHANGED pageVars

\* Fault variant of PositionError: a failed probe clears the held fix.
PositionErrorClears(mounted) ==
    /\ IF mounted THEN probes.live > 0 ELSE probes.stale > 0
    /\ probes' = IF mounted THEN [probes EXCEPT !.live = @ - 1]
                 ELSE [probes EXCEPT !.stale = @ - 1]
    /\ modal' = IF mounted THEN [modal EXCEPT !.location = NoLocation] ELSE modal
    /\ toast' = "location-failed"
    /\ UNCHANGED <<currentUser, geolocationSupported, showUploadModal,
                   cameraRequests, liveStreams, pendingCapture, attempts,
                   storage, photos>>
    /\ UNCHANGED pageVars

\* The error callback of getCurrentPosition (denied, unavailable, timeout).
PositionError(mounted) ==
    /\ IF mounted THEN probes.live > 0 ELSE probes.stale > 0
    /\ probes' = IF mounted THEN [probes EXCEPT !.live = @ - 1]
                 ELSE [probes EXCEPT !.stale = @ - 1]
    /\ toast' = "location-failed"
    /\ UNCHANGED <<currentUser, geolocationSupported, showUploadModal, modal,
                   cameraRequests, liveStreams, pendingCapture, attempts,
                   storage, photos>>
    /\ UNCHANGED pageVars

\* ------------------------------------------ UploadModal: form and dismissal

\* Fault variant of SetDescription: a textarea without maxLength.
SetDescriptionUnbounded(t) ==
    /\ FormUsable
    /\ modal' = [modal EXCEPT !.description = t]
    /\ modal' # modal
    /\ toast' = NoToast
    /\ UNCHANGED <<currentUser, geolocationSupported, showUploadModal, probes,
                   cameraRequests, liveStreams, pendingCapture, attempts,
                   storage, photos>>
    /\ UNCHANGED pageVars

\* The description textarea: the browser keeps at most maxLength characters.
SetDescription(t) ==
    /\ FormUsable
    /\ modal' = [modal EXCEPT !.description = Truncate(t, DescriptionMaxLength)]
    /\ modal' # modal
    /\ toast' = NoToast
    /\ UNCHANGED <<currentUser, geolocationSupported, showUploadModal, probes,
                   cameraRequests, liveStreams, pendingCapture, attempts,
                   storage, photos>>
    /\ UNCHANGED pageVars

\* The anonymity toggle.
ToggleAnonymous ==
    /\ FormUsable
    /\ modal' = [modal EXCEPT !.isAnonymous = ~@]
    /\ toast' = NoToast
    /\ UNCHANGED <<currentUser, geolocationSupported, showUploadModal, probes,
                   cameraRequests, liveStreams, pendingCapture, attempts,
                   storage, photos>>
    /\ UNCHANGED pageVars

\* Fault variant of OnClose: a callback that leaves the modal shown.
OnCloseIgnored(shown) == shown

\* HomePage's onClose: setShowUploadModal(false).
OnClose(shown) == FALSE

\* Fault variant of HandleClose: closing abandons the uploads in flight.
HandleCloseCancels ==
    /\ FormUsable
    /\ liveStreams' = StopTracks(modal.stream)
    /\ showUploadModal' = FALSE
    /\ modal' = InitModal
    /\ probes' = Orphan(probes)
    /\ cameraRequests' = Orphan(cameraRequests)
    /\ pendingCapture' = OrphanCaptures(pendingCapture)
    /\ attempts' = [i \in DOMAIN attempts |->
                      IF attempts[i].pc \in {"succeeded", "failed"}
                      THEN attempts[i]
                      ELSE [attempts[i] EXCEPT !.pc = "failed",
                                               !.mounted = FALSE,
                                               !.file = NoFile,
                                               !.location = NoLocation,
                                               !.description = EmptyText,
                                               !.isAnonymous = FALSE]]
    /\ toast' = NoToast
    /\ UNCHANGED <<currentUser, geolocationSupported, storage, photos>>
    /\ UNCHANGED pageVars

\* handleClose: the close button and a click outside the modal.  It stops the
\* camera and calls onClose, and HomePage unmounts the modal.
HandleClose ==
    /\ FormUsable
    /\ liveStreams' = StopTracks(modal.stream)
    /\ showUploadModal' = OnClose(showUploadModal)
    /\ IF showUploadModal'
       THEN /\ modal' = StopCamera(modal, modal.stream)
            /\ UNCHANGED <<probes, cameraRequests, pendingCapture, attempts>>
       ELSE /\ modal' = InitModal
            /\ probes' = Orphan(probes)
            /\ cameraRequests' = Orphan(cameraRequests)
            /\ pendingCapture' = OrphanCaptures(pendingCapture)
            /\ attempts' = OrphanAttempts(attempts)
    /\ toast' = NoToast
    /\ UNCHANGED <<currentUser, geolocationSupported, storage, photos>>
    /\ UNCHANGED pageVars

\* ---------------------------------------- UploadModal: upload orchestrator

\* disabled={!selectedFile || !location || isUploading} of the submit button.
SubmitDisabled(m) ==
    m.selectedFile = NoFile \/ m.location = NoLocation \/ m.isUploading

\* handleSubmit: validate, then show the responsibility warning.
HandleSubmit(m) ==
    IF m.selectedFile = NoFile
    THEN [modal |-> m, toast |-> "select-image"]
    ELSE IF m.location = NoLocation
    THEN [modal |-> m, toast |-> "capture-location"]
    ELSE [modal |-> [m EXCEPT !.showWarning = TRUE], toast |-> NoToast]

\* Fault variant of ClickSharePhoto: the location is not required.
ClickSharePhotoLocationOptional ==
    /\ FormUsable
    /\ modal.selectedFile # NoFile
    /\ ~modal.isUploading
    /\ modal' = [modal EXCEPT !.showWarning = TRUE]
    /\ toast' = NoToast
    /\ UNCHANGED <<currentUser, geolocationSupported, showUploadModal, probes,
                   cameraRequests, liveStreams, pendingCapture, attempts,
                   storage, photos>>
    /\ UNCHANGED pageVars

\* A click on Share Photo: handleSubmit runs unless the button is disabled.
ClickSharePhoto ==
    /\ FormUsable
    /\ ~SubmitDisabled(modal)
    /\ modal' = HandleSubmit(modal).modal
    /\ toast' = HandleSubmit(modal).toast
    /\ UNCHANGED <<currentUser, geolocationSupported, showUploadModal, probes,
                   cameraRequests, liveStreams, pendingCapture, attempts,
                   storage, photos>>
    /\ UNCHANGED pageVars

\* Cancel in the responsibility warning.
CancelWarning ==
    /\ showUploadModal
    /\ modal.showWarning
    /\ modal' = [modal EXCEPT !.showWarning = FALSE]
    /\ toast' = NoToast
    /\ UNCHANGED <<currentUser, geolocationSupported, showUploadModal, probes,
                   cameraRequests, liveStreams, pendingCapture, attempts,
                   storage, photos>>
    /\ UNCHANGED pageVars

\* photos/${uid}/${timestamp}_${name}; the attempt's number stands for its
\* timestamp.
Filename(uid, timestamp, name) == <<"photos", uid, timestamp, name>>

\* Fault variant of NewAttempt: the document write is issued together with
\* the blob write.
NewAttemptParallel(n) ==
    [user |-> currentUser,
     file |-> modal.selectedFile,
     location |-> modal.location,
     description |-> modal.description,
     isAnonymous |-> modal.isAnonymous,
     filename |-> Filename(currentUser, n, modal.selectedFile),
     mounted |-> TRUE,
     calls |-> <<"uploadBytes", "addDoc">>,
     resolved |-> {},
     rejected |-> {},
     pc |-> "uploadBytes"]

\* The run of confirmUpload started by a Confirm & Post press, with the
\* values its closure holds, up to the uploadBytes call.
NewAttempt(n) ==
    [user |-> currentUser,
     file |-> modal.selectedFile,
     location |-> modal.location,
     description |-> modal.description,
     isAnonymous |-> modal.isAnonymous,
     filename |-> Filename(currentUser, n, modal.selectedFile),
     mounted |-> TRUE,
     calls |-> <<"uploadBytes">>,
     resolved |-> {},
     rejected |-> {},
     pc |-> "uploadBytes"]

\* Fault variant of ConfirmUpload: Confirm & Post reachable from the form,
\* without the warning.
ConfirmUploadUnguarded(maxAttempts) ==
    /\ FormUsable
    /\ currentUser # NoUser
    /\ modal.selectedFile # NoFile
    /\ ~modal.isUploading
    /\ Len(attempts) < maxAttempts
    /\ modal' = [modal EXCEPT !.isUploading = TRUE]
    /\ toast' = NoToast
    /\ attempts' = Append(attempts, NewAttempt(Len(attempts) + 1))
    /\ UNCHANGED <<currentUser, geolocationSupported, showUploadModal, probes,
                   cameraRequests, liveStreams, pendingCapture, storage,
                   photos>>
    /\ UNCHANGED pageVars

\* confirmUpload up to its first await: Confirm & Post in the warning.
ConfirmUpload(maxAttempts) ==
    /\ showUploadModal
    /\ modal.showWarning
    /\ IF currentUser = NoUser
       THEN \* return from the try block; finally clears the busy flag
            /\ modal' = [modal EXCEPT !.showWarning = FALSE,
                                      !.isUploading = FALSE]
            /\ toast' = "sign-in-required"
            /\ attempts' = attempts
       ELSE IF modal.selectedFile = NoFile
       THEN \* selectedFile.name throws; catch, then finally
            /\ modal' = [modal EXCEPT !.showWarning = FALSE,
                                      !.isUploading = FALSE]
            /\ toast' = "upload-failed"
            /\ attempts' = attempts
       ELSE /\ Len(attempts) < maxAttempts
            /\ modal' = [modal EXCEPT !.showWarning = FALSE,
                                      !.isUploading = TRUE]
            /\ toast' = NoToast
            /\ attempts' = Append(attempts, NewAttempt(Len(attempts) + 1))
    /\ UNCHANGED <<currentUser, geolocationSupported, showUploadModal, probes,
                   cameraRequests, liveStreams, pendingCapture, storage,
                   photos>>
    /\ UNCHANGED pageVars

\* A run of confirmUpload that has returned: its closure is gone.
Returned(a, outcome) ==
    [a EXCEPT !.pc = outcome,
              !.mounted = FALSE,
              !.file = NoFile,
              !.location = NoLocation,
              !.description = EmptyText,
              !.isAnonymous = FALSE]

\* Fault variant of Fail: the catch block clears the form.
FailResets(i) ==
    /\ attempts' = [attempts EXCEPT
                      ![i] = Returned([@ EXCEPT !.rejected =
                                                 @ \cup {attempts[i].pc}],
                                      "failed")]
    /\ modal' = IF attempts[i].mounted
                THEN [modal EXCEPT !.selectedFile = NoFile,
                                   !.preview = NoPreview,
                                   !.location = NoLocation,
                                   !.description = EmptyText,
                                   !.isAnonymous = FALSE,
                                   !.isUploading = FALSE]
                ELSE modal
    /\ toast' = "upload-failed"
    /\ UNCHANGED <<currentUser, geolocationSupported, showUploadModal, probes,
                   cameraRequests, liveStreams, pendingCapture, photos>>
    /\ UNCHANGED pageVars

\* Fault variant of Fail: no finally block, the busy flag stays set.
FailStaysBusy(i) ==
    /\ attempts' = [attempts EXCEPT
                      ![i] = Returned([@ EXCEPT !.rejected =
                                                 @ \cup {attempts[i].pc}],
                                      "failed")]
    /\ modal' = modal
    /\ toast' = "upload-failed"
    /\ UNCHANGED <<currentUser, geolocationSupported, showUploadModal, probes,
                   cameraRequests, liveStreams, pendingCapture, photos>>
    /\ UNCHANGED pageVars

\* The catch and finally blocks of confirmUpload for attempt i.
Fail(i) ==
    /\ attempts' = [attempts EXCEPT
                      ![i] = Returned([@ EXCEPT !.rejected =
                                                 @ \cup {attempts[i].pc}],
                                      "failed")]
    /\ modal' = IF attempts[i].mounted
                THEN [modal EXCEPT !.isUploading = FALSE]
                ELSE modal
    /\ toast' = "upload-failed"
    /\ UNCHANGED <<currentUser, geolocationSupported, showUploadModal, probes,
                   cameraRequests, liveStreams, pendingCapture, photos>>
    /\ UNCHANGED pageVars

\* uploadBytes resolves: the blob is stored; getDownloadURL is called.
UploadBytesResolves(i) ==
    /\ attempts[i].pc = "uploadBytes"
    /\ storage' = storage \cup {attempts[i].filename}
    /\ attempts' = [attempts EXCEPT ![i].pc = "getDownloadURL",
                                    ![i].resolved = @ \cup {"uploadBytes"},
                                    ![i].calls = Append(@, "getDownloadURL")]
    /\ toast' = NoToast
    /\ UNCHANGED <<currentUser, geolocationSupported, showUploadModal, modal,
                   probes, cameraRequests, liveStreams, pendingCapture, photos>>
    /\ UNCHANGED pageVars

\* uploadBytes rejects.
UploadBytesRejects(i) ==
    /\ attempts[i].pc = "uploadBytes"
    /\ storage' = storage
    /\ Fail(i)

\* The download URL of a stored blob.
DownloadURL(filename) == <<"https", filename>>

\* photoData as confirmUpload assembles it for attempt a.
\* What AuthContext holds about a signed-in user: the e-mail address and
\* displayName of the Firebase user and the username of the profile.
Email(u) == <<"email", u>>
DisplayName(u) == <<"displayName", u>>
ProfileUsername(u) == <<"username", u>>

\* userProfile?.username || currentUser.displayName || 'Anonymous'
StoredUsername(profileUsername, displayName) ==
    IF profileUsername # <<>> THEN profileUsername
    ELSE IF displayName # <<>> THEN displayName
    ELSE <<"Anonymous">>

\* Fault variant of PhotoData: an anonymous post stores no identity.
PhotoDataMasked(a, id) ==
    [id |-> id,
     userId |-> IF a.isAnonymous THEN NoUser ELSE a.user,
     userEmail |-> IF a.isAnonymous THEN <<>> ELSE Email(a.user),
     username |-> IF a.isAnonymous THEN <<"Anonymous">>
                  ELSE StoredUsername(ProfileUsername(a.user),
                                      DisplayName(a.user)),
     imageURL |-> DownloadURL(a.filename),
     imagePath |-> a.filename,
     location |-> [latitude |-> Latitude(a.location),
                   longitude |-> Longitude(a.location)],
     description |-> IF TextLength(Trim(a.description)) = 0
                     THEN <<>>
                     ELSE <<Trim(a.description)>>,
     isAnonymous |-> a.isAnonymous]

\* photoData, the document confirmUpload hands to addDoc.
\* Fault variant of PhotoData: the description and the anonymity flag are
\* read from the form when the document is written.
PhotoDataFromForm(a, id) ==
    [id |-> id,
     userId |-> a.user,
     userEmail |-> Email(a.user),
     username |-> StoredUsername(ProfileUsername(a.user), DisplayName(a.user)),
     imageURL |-> DownloadURL(a.filename),
     imagePath |-> a.filename,
     location |-> [latitude |-> Latitude(a.location),
                   longitude |-> Longitude(a.location)],
     description |-> IF TextLength(Trim(modal.description)) = 0
                     THEN <<>>
                     ELSE <<Trim(modal.description)>>,
     isAnonymous |-> modal.isAnonymous]

PhotoData(a, id) ==
    [id |-> id,
     userId |-> a.user,
     userEmail |-> Email(a.user),
     username |-> StoredUsername(ProfileUsername(a.user), DisplayName(a.user)),
     imageURL |-> DownloadURL(a.filename),
     imagePath |-> a.filename,
     location |-> [latitude |-> Latitude(a.location),
                   longitude |-> Longitude(a.location)],
     description |-> IF TextLength(Trim(a.description)) = 0
                     THEN <<>>
                     ELSE <<Trim(a.description)>>,
     isAnonymous |-> a.isAnonymous]

\* getDownloadURL resolves: photoData is assembled and addDoc is called.
GetDownloadURLResolves(i) ==
    /\ attempts[i].pc = "getDownloadURL"
    /\ attempts' = [attempts EXCEPT ![i].pc = "addDoc",
                                    ![i].resolved = @ \cup {"getDownloadURL"},
                                    ![i].calls = Append(@, "addDoc")]
    /\ toast' = NoToast
    /\ UNCHANGED <<currentUser, geolocationSupported, showUploadModal, modal,
                   probes, cameraRequests, liveStreams, pendingCapture,
                   storage, photos>>
    /\ UNCHANGED pageVars

\* Fault variant of GetDownloadURLRejects: the rejection is swallowed and
\* confirmUpload goes on to addDoc.
GetDownloadURLRejectsSwallowed(i) ==
    /\ attempts[i].pc = "getDownloadURL"
    /\ attempts' = [attempts EXCEPT ![i].pc = "addDoc",
                                    ![i].rejected = @ \cup {"getDownloadURL"},
                                    ![i].calls = Append(@, "addDoc")]
    /\ toast' = NoToast
    /\ UNCHANGED <<currentUser, geolocationSupported, showUploadModal, modal,
                   probes, cameraRequests, liveStreams, pendingCapture,
                   storage, photos>>
    /\ UNCHANGED pageVars

\* getDownloadURL rejects.
GetDownloadURLRejects(i) ==
    /\ attempts[i].pc = "getDownloadURL"
    /\ storage' = storage
    /\ Fail(i)

\* The form fields confirmUpload resets after a successful upload.
ResetForm(m) ==
    [m EXCEPT !.selectedFile = NoFile,
              !.preview = NoPreview,
              !.location = NoLocation,
              !.description = EmptyText,
              !.isAnonymous = FALSE]

\* addDoc resolves: the document exists; confirmUpload reports success, calls
\* onClose, resets the form and clears the busy flag.
AddDocResolves(i) ==
    /\ attempts[i].pc = "addDoc"
    /\ photos' = photos \cup {PhotoData(attempts[i], i)}
    /\ toast' = NoToast
    /\ showUploadModal' = (showUploadModal /\ OnClose(showUploadModal))
    /\ LET done == [attempts EXCEPT
                       ![i] = Returned([@ EXCEPT !.resolved = @ \cup {"addDoc"}],
                                       "succeeded")]
       IN  IF showUploadModal'
           THEN /\ modal' = IF attempts[i].mounted
                            THEN [ResetForm(modal) EXCEPT !.isUploading = FALSE]
                            ELSE modal
                /\ attempts' = done
                /\ UNCHANGED <<probes, cameraRequests, pendingCapture>>
           ELSE /\ modal' = InitModal
                /\ attempts' = OrphanAttempts(done)
                /\ probes' = Orphan(probes)
                /\ cameraRequests' = Orphan(cameraRequests)
                /\ pendingCapture' = OrphanCaptures(pendingCapture)
    /\ UNCHANGED <<currentUser, geolocationSupported, liveStreams, storage>>
    /\ UNCHANGED pageVars

\* addDoc rejects.
AddDocRejects(i) ==
    /\ attempts[i].pc = "addDoc"
    /\ storage' = storage
    /\ Fail(i)

\* -------------------------------------------------------------- ImageFeed

\* A document of the 'photos' collection as the feed reads it: its id and
\* the createdAt the server assigned (the other fields are carried along
\* unread).  Ids are auto-generated, so their order is unrelated to the order
\* of creation.
FeedDoc(id, createdAt) == [id |-> id, createdAt |-> createdAt]

\* A createdAt that is missing (null).
NoTimestamp == 0

\* The collection before the feed is observed: n documents, here with ids in
\* the order of their creation.
ExistingDocs(n) == {FeedDoc(2 * k, k) : k \in 1..n}

\* The ids the new documents can get: before all the existing ones, among
\* the first PageSize of them, and after them.
NewDocIds == {1, 2 * PageSize - 1, 2 * PageSize + 1}

DocIds(docs) == {d.id : d \in docs}

\* The latest createdAt of the collection.
LatestTimestamp(docs) ==
    IF docs = {} THEN NoTimestamp
    ELSE CHOOSE t \in {d.createdAt : d \in docs} :
             \A d \in docs : d.createdAt <= t

\* The documents of a query without orderBy, in the order the database
\* returns them: ascending document id.
RECURSIVE OrderedById(_)
OrderedById(docs) ==
    IF docs = {} THEN <<>>
    ELSE LET first == CHOOSE d \in docs : \A e \in docs : d.id <= e.id
         IN  <<first>> \o OrderedById(docs \ {first})

\* limit(n).
Limit(results, n) == SubSeq(results, 1, Min(Len(results), n))

\* query(collection(db, 'photos'), limit(50)).
QueryPhotos(docs) == Limit(OrderedById(docs), PageSize)

\* The comparator of photosData.sort is negative: a goes before b.  By
\* createdAt, later first, when both have one; else by id, greater first.
SortsBefore(a, b) ==
    IF a.createdAt # NoTimestamp /\ b.createdAt # NoTimestamp
    THEN b.createdAt < a.createdAt
    ELSE b.id < a.id

\* Array.prototype.sort with that comparator (a stable sort): d goes in
\* front of the first element it sorts before.
RECURSIVE InsertSorted(_, _)
InsertSorted(d, sorted) ==
    IF sorted = <<>> THEN <<d>>
    ELSE IF SortsBefore(d, Head(sorted)) THEN <<d>> \o sorted
    ELSE <<Head(sorted)>> \o InsertSorted(d, Tail(sorted))

RECURSIVE SortPhotos(_)
SortPhotos(photosData) ==
    IF photosData = <<>> THEN <<>>
    ELSE InsertSorted(photosData[Len(photosData)],
                      SortPhotos(SubSeq(photosData, 1, Len(photosData) - 1)))

\* ImageFeed mounts: the effect subscribes, and the first snapshot is due.
MountFeed ==
    /\ listener = "off"
    /\ listener' = "due"
    /\ feed' = InitFeed
    /\ UNCHANGED <<uploadVars, profileVars, photos, toast, authPage, donatePage>>

\* ImageFeed unmounts: the cleanup unsubscribes and the state is discarded.
UnmountFeed ==
    /\ listener # "off"
    /\ listener' = "off"
    /\ feed' = InitFeed
    /\ UNCHANGED <<uploadVars, profileVars, photos, toast, authPage, donatePage>>

\* The success callback of onSnapshot: the query's result is copied, sorted
\* and stored.
SnapshotDelivered ==
    /\ listener = "due"
    /\ feed' = [photos |-> SortPhotos(QueryPhotos(photos)), loading |-> FALSE]
    /\ listener' = "current"
    /\ UNCHANGED <<uploadVars, profileVars, photos, toast, authPage, donatePage>>

\* The error callback of onSnapshot: the list is emptied; the listener is
\* cancelled by the database and delivers nothing more.
SnapshotError ==
    /\ listener \in {"due", "current"}
    /\ feed' = [photos |-> <<>>, loading |-> FALSE]
    /\ listener' = "failed"
    /\ UNCHANGED <<uploadVars, profileVars, photos, toast, authPage, donatePage>>

\* The document write of a successful upload, seen from the feed: a new
\* document with a fresh id and the server's timestamp is in the collection,
\* and a snapshot is due to every listener.
AddDoc(id, maxNewDocs) ==
    /\ id \in NewDocIds \ DocIds(photos)
    /\ Cardinality(DocIds(photos) \cap NewDocIds) < maxNewDocs
    /\ photos' = photos \cup {FeedDoc(id, LatestTimestamp(photos) + 1)}
    /\ listener' = IF listener = "current" THEN "due" ELSE listener
    /\ UNCHANGED <<uploadVars, profileVars, feed, toast, authPage, donatePage>>

\* --------------------------------------------------------------- AuthPage

\* What the user types into the email and the password fields.
EmailInputs == {EmptyInput, <<"u", "1", "@", "x", ".", "y">>}
PasswordInputs ==
    {EmptyInput,
     <<"s", "e", "c", "r", "t">>,
     <<"s", "e", "c", "r", "e", "t">>,
     <<"S", "e", "c", "r", "e", "t">>}

\* The inputs rendered: confirmPassword only in sign-up mode.
InputNames(isSignUp) ==
    IF isSignUp THEN {"email", "password", "confirmPassword"}
    ELSE {"email", "password"}

\* The browser dispatches the submit event: the submit button is enabled and
\* no rendered input, all of them `required`, is empty.
CanSubmit(a) ==
    /\ ~a.isLoading
    /\ \A name \in InputNames(a.isSignUp) : a.formData[name] # EmptyInput

\* handleInputChange: one field of formData is replaced.
HandleInputChange(name, value) ==
    /\ authPage.route = "/auth"
    /\ name \in InputNames(authPage.isSignUp)
    /\ authPage' = [authPage EXCEPT !.formData[name] = value]
    /\ toast' = NoToast
    /\ UNCHANGED <<uploadVars, profileVars, photos, feed, listener, donatePage>>

\* The link under the form: setIsSignUp(!isSignUp).
ToggleSignUp ==
    /\ authPage.route = "/auth"
    /\ authPage' = [authPage EXCEPT !.isSignUp = ~@]
    /\ toast' = NoToast
    /\ UNCHANGED <<uploadVars, profileVars, photos, feed, listener, donatePage>>

\* The provider call handleEmailAuth makes in each mode.
EmailAuthCall(isSignUp) ==
    IF isSignUp THEN "signUpWithEmail" ELSE "signInWithEmail"

\* Fault variant of EmailAuthChecks: the confirmation is not compared.
EmailAuthChecksSkipMatch(a) ==
    IF Len(a.formData.password) < MinPasswordLength
    THEN "password-too-short"
    ELSE NoToast

\* The validation of handleEmailAuth: the toast.error it ends with, or
\* NoToast when the submit goes on to the provider.
EmailAuthChecks(a) ==
    IF a.isSignUp /\ a.formData.password # a.formData.confirmPassword
    THEN "passwords-do-not-match"
    ELSE IF Len(a.formData.password) < MinPasswordLength
    THEN "password-too-short"
    ELSE NoToast

\* handleEmailAuth up to its await: validate, then enter the loading state
\* and call the provider.
HandleEmailAuth(maxCalls) ==
    /\ authPage.route = "/auth"
    /\ CanSubmit(authPage)
    /\ Len(authPage.calls) < maxCalls
    /\ toast' = EmailAuthChecks(authPage)
    /\ authPage' =
           IF toast' # NoToast THEN authPage
           ELSE [authPage EXCEPT
                    !.isLoading = TRUE,
                    !.calls = Append(@, EmailAuthCall(authPage.isSignUp)),
                    !.pending = EmailAuthCall(authPage.isSignUp),
                    !.closure = sessions[MainClient].userProfile]
    /\ UNCHANGED <<uploadVars, profileVars, photos, feed, listener, donatePage>>

\* handleGoogleSignIn up to its await.
HandleGoogleSignIn(maxCalls) ==
    /\ authPage.route = "/auth"
    /\ ~authPage.isLoading
    /\ Len(authPage.calls) < maxCalls
    /\ authPage' = [authPage EXCEPT
                       !.isLoading = TRUE,
                       !.calls = Append(@, "signInWithGoogle"),
                       !.pending = "signInWithGoogle",
                       !.closure = sessions[MainClient].userProfile]
    /\ toast' = NoToast
    /\ UNCHANGED <<uploadVars, profileVars, photos, feed, listener, donatePage>>

\* The route the handlers navigate to after the provider call resolved.
RouteAfter(call, profileComplete) ==
    IF call = "signUpWithEmail" \/ ~profileComplete
    THEN "/complete-profile"
    ELSE "/"

\* The awaited provider call resolves, u being signed in: the handler
\* navigates by the isProfileComplete it was created with, and its `finally`
\* leaves the loading state.
AuthCallResolves(u) ==
    /\ authPage.pending # "none"
    /\ authPage' = [authPage EXCEPT
                       !.route = RouteAfter(authPage.pending,
                                            IsProfileComplete(authPage.closure)),
                       !.isLoading = FALSE,
                       !.pending = "none",
                       !.result = u]
    /\ toast' = NoToast
    /\ UNCHANGED <<uploadVars, profileVars, photos, feed, listener, donatePage>>

\* The awaited provider call rejects: the handler reports the failure and
\* its `finally` leaves the loading state.
AuthCallRejects ==
    /\ authPage.pending # "none"
    /\ authPage' = [authPage EXCEPT !.isLoading = FALSE, !.pending = "none"]
    /\ toast' = "authentication-failed"
    /\ UNCHANGED <<uploadVars, profileVars, photos, feed, listener, donatePage>>

\* ------------------------------------------------------------- DonatePage

predefinedAmounts == {100, 250, 500, 1000, 2500, 5000}

\* What the custom amount input, an <input type="number">, can hold: the
\* empty string or a decimal number with an optional fraction and exponent.
AmountInputs ==
    {EmptyInput,
     <<"7", "5", "0">>,
     <<"1", "0", "0", "0", "0", "0">>,
     <<"1", "0", "0", "0", "0", "1">>,
     <<"1", "0", "0", "0", "0", "0", ".", "5">>,
     <<"1", "e", "6">>,
     <<".", "5">>,
     <<"-", "5">>}

DecimalDigits == <<"0", "1", "2", "3", "4", "5", "6", "7", "8", "9">>
IsDigit(c) == \E i \in DOMAIN DecimalDigits : DecimalDigits[i] = c
DigitValue(c) == (CHOOSE i \in DOMAIN DecimalDigits : DecimalDigits[i] = c) - 1

\* The longest prefix of str made of digits.
RECURSIVE LeadingDigits(_)
LeadingDigits(str) ==
    IF str = <<>> \/ ~IsDigit(Head(str)) THEN <<>>
    ELSE <<Head(str)>> \o LeadingDigits(Tail(str))

\* The number a string of digits denotes (0 for no digits).
RECURSIVE DigitsValue(_)
DigitsValue(ds) ==
    IF ds = <<>> THEN 0
    ELSE 10 * DigitsValue(SubSeq(ds, 1, Len(ds) - 1)) + DigitValue(ds[Len(ds)])

RECURSIVE PowerOfTen(_)
PowerOfTen(n) == IF n = 0 THEN 1 ELSE 10 * PowerOfTen(n - 1)

\* str without its first n characters.
Drop(str, n) == SubSeq(str, n + 1, Len(str))

\* parseInt(str): an optional sign and the leading digits as a number, NaN
\* when there are no digits.  Whatever follows the digits is ignored.
ParseInt(str) ==
    LET negative == str # <<>> /\ Head(str) = "-"
        digits == LeadingDigits(IF negative THEN Tail(str) ELSE str)
    IN  IF digits = <<>> THEN NaN
        ELSE IF negative THEN <<0 - DigitsValue(digits)>>
        ELSE <<DigitsValue(digits)>>
\* parsed || 0.
OrZero(parsed) == IF parsed = NaN THEN 0 ELSE parsed[1]

\* The parts of a decimal number: digits, "." digits, "e" digits.
NumberParts(str) ==
    LET whole == LeadingDigits(str)
        afterWhole == Drop(str, Len(whole))
        fraction == IF afterWhole # <<>> /\ Head(afterWhole) = "."
                    THEN LeadingDigits(Tail(afterWhole)) ELSE <<>>
        afterFraction == IF afterWhole # <<>> /\ Head(afterWhole) = "."
                         THEN Drop(afterWhole, 1 + Len(fraction))
                         ELSE afterWhole
        exponent == IF afterFraction # <<>> /\ Head(afterFraction) = "e"
                    THEN LeadingDigits(Tail(afterFraction)) ELSE <<>>
    IN  [whole |-> whole, fraction |-> fraction, exponent |-> exponent]

\* The number the input's value denotes is greater than n.
ValueExceeds(str, n) ==
    LET parts == NumberParts(str)
        scale == PowerOfTen(Len(parts.fraction))
    IN  (DigitsValue(parts.whole) * scale + DigitsValue(parts.fraction))
            * PowerOfTen(DigitsValue(parts.exponent)) > n * scale

\* finalAmount: the amount shown in the summary and passed to the payment.
FinalAmount(d) ==
    IF d.customAmount # EmptyInput THEN ParseInt(d.customAmount)
    ELSE <<d.selectedAmount>>
\* amount <= 0, which is false for NaN.
NotPositive(amount) == amount # NaN /\ amount[1] <= 0
\* amount * 100, which is NaN for NaN.
InPaise(amount) == IF amount = NaN THEN NaN ELSE <<amount[1] * 100>>

\* The donation form is shown and no checkout covers it.
AmountEditable ==
    ~donatePage.isSuccess /\ donatePage.checkout = NoCheckout

\* handleAmountSelect: a predefined amount button.
HandleAmountSelect(amount) ==
    /\ AmountEditable
    /\ donatePage' = [donatePage EXCEPT !.selectedAmount = amount,
                                        !.customAmount = EmptyInput]
    /\ toast' = NoToast
    /\ UNCHANGED <<uploadVars, profileVars, photos, feed, listener, authPage>>

\* handleCustomAmount: the change event of the custom amount input.
HandleCustomAmount(value) ==
    /\ AmountEditable
    /\ value # donatePage.customAmount
    /\ LET numValue == OrZero(ParseInt(value))
       IN  IF numValue > MaxDonationAmount
           THEN /\ toast' = "maximum-donation"
                /\ donatePage' = donatePage
           ELSE /\ toast' = NoToast
                /\ donatePage' =
                       [donatePage EXCEPT
                           !.customAmount = value,
                           !.selectedAmount =
                               IF value # EmptyInput THEN numValue ELSE @]
    /\ UNCHANGED <<uploadVars, profileVars, photos, feed, listener, authPage>>

\* The checkout script of the payment provider has loaded.
RazorpayScriptLoads ==
    /\ ~donatePage.razorpayLoaded
    /\ donatePage' = [donatePage EXCEPT !.razorpayLoaded = TRUE]
    /\ toast' = NoToast
    /\ UNCHANGED <<uploadVars, profileVars, photos, feed, listener, authPage>>

\* handleDonate behind the donate button (disabled while processing and
\* for an amount that is not positive): handleRazorpayPayment creates the
\* order, in paise, and opens the checkout.
HandleDonate(maxPayments) ==
    /\ AmountEditable
    /\ ~donatePage.isProcessing
    /\ ~NotPositive(FinalAmount(donatePage))
    /\ Len(donatePage.payments) < maxPayments
    /\ IF ~donatePage.razorpayLoaded
       THEN /\ toast' = "gateway-not-loaded"
            /\ donatePage' = donatePage
       ELSE /\ toast' = NoToast
            /\ donatePage' =
                   [donatePage EXCEPT
                       !.isProcessing = TRUE,
                       !.checkout =
                           [open |-> TRUE,
                            amount |-> InPaise(FinalAmount(donatePage))]]
    /\ UNCHANGED <<uploadVars, profileVars, photos, feed, listener, authPage>>

\* The checkout's handler: the payment went through.
PaymentSucceeds ==
    /\ donatePage.checkout # NoCheckout
    /\ donatePage' = [donatePage EXCEPT
                         !.isSuccess = TRUE,
                         !.isProcessing = FALSE,
                         !.payments = Append(@, donatePage.checkout.amount),
                         !.checkout = NoCheckout]
    /\ toast' = NoToast
    /\ UNCHANGED <<uploadVars, profileVars, photos, feed, listener, authPage>>

\* The checkout's ondismiss: the donor closed it.
CheckoutDismissed ==
    /\ donatePage.checkout # NoCheckout
    /\ donatePage' = [donatePage EXCEPT !.isProcessing = FALSE,
                                        !.checkout = NoCheckout]
    /\ toast' = "payment-cancelled"
    /\ UNCHANGED <<uploadVars, profileVars, photos, feed, listener, authPage>>

\* The button of the thank-you view: setIsSuccess(false).
DonateAgain ==
    /\ donatePage.isSuccess
    /\ donatePage' = [donatePage EXCEPT !.isSuccess = FALSE]
    /\ toast' = NoToast
    /\ UNCHANGED <<uploadVars, profileVars, photos, feed, listener, authPage>>

\* ----------------------------------------------------------- AuthProvider

\* What the user types into the username field, as handleInputChange of
\* UserProfileCompletion cleans it (letters, digits and underscores).
UsernameInputs ==
    {<<"a", "n">>,
     <<"a", "n", "n">>,
     <<"A", "n", "n">>,
     <<"b", "o", "b">>}

\* A ten-digit phone number.
TenDigits == <<"9", "8", "7", "6", "5", "4", "3", "2", "1", "0">>

\* String.prototype.toLowerCase over the letters used here.
LowerCaseOf(ch) == IF ch = "A" THEN "a" ELSE IF ch = "B" THEN "b" ELSE ch
ToLowerCase(str) == [k \in DOMAIN str |-> LowerCaseOf(str[k])]

\* userProfileData, the document handleSubmit of UserProfileCompletion
\* writes to users/<uid>: the only writer of the collection.
UserProfileData(uid, formData) ==
    [uid |-> uid,
     username |-> ToLowerCase(formData.username),
     phoneNumber |-> formData.phoneNumber,
     isProfileComplete |-> TRUE]

\* The profiles completed in earlier sessions.
EarlierProfile(u) ==
    UserProfileData(u, [username |-> IF u = "u1" THEN <<"a", "n", "n">>
                                     ELSE <<"b", "o", "b">>,
                        phoneNumber |-> TenDigits])

\* The collection when a browser opens the site: no profile yet, the
\* profile of u1 only, or both profiles.
InitialUsers ==
    {[u \in Accounts |-> IF u \in done THEN Some(EarlierProfile(u)) ELSE Null] :
        done \in {{}, {"u1"}, Accounts}}

\* The i-th element of a sequence removed.
RemoveAt(seq, i) == SubSeq(seq, 1, i - 1) \o SubSeq(seq, i + 1, Len(seq))

\* The onAuthStateChanged callback up to its await: the first one when the
\* provider has initialised, then one per sign-in, sign-out or user switch.
\* Signed out, it runs to its end; signed in, it awaits fetchUserProfile.
OnAuthStateChanged(c, u, maxFetches) ==
    /\ ~sessions[c].started \/ u # sessions[c].currentUser
    /\ u # NoUser => Len(sessions[c].fetches) < maxFetches
    /\ sessions' =
           [sessions EXCEPT ![c] =
               IF u = NoUser
               THEN [@ EXCEPT !.currentUser = NoUser,
                              !.userProfile = Null,
                              !.loading = FALSE,
                              !.started = TRUE]
               ELSE [@ EXCEPT !.currentUser = u,
                              !.fetches =
                                  Append(@, [uid |-> u,
                                             first |-> ~sessions[c].started]),
                              !.started = TRUE]]
    /\ currentUser' = IF c = MainClient THEN u ELSE currentUser
    /\ toast' = NoToast
    /\ UNCHANGED <<geolocationSupported, showUploadModal, modal, probes,
                   cameraRequests, liveStreams, pendingCapture, attempts,
                   storage, photos, feed, listener, authPage, donatePage,
                   users, profilePages>>

\* What fetchUserProfile returns: the data of users/<uid> if the document
\* exists, null if it does not or if getDoc failed.
FetchUserProfile(uid, ok) == IF ok THEN users[uid] ELSE Null

\* The rest of the callback, after fetchUserProfile returned:
\* setUserProfile(profile) and setLoading(false).
FetchUserProfileReturns(c, i, ok) ==
    /\ i \in DOMAIN sessions[c].fetches
    /\ sessions' =
           [sessions EXCEPT ![c] =
               [@ EXCEPT !.userProfile =
                             FetchUserProfile(sessions[c].fetches[i].uid, ok),
                         !.loading = FALSE,
                         !.fetches = RemoveAt(@, i)]]
    /\ toast' = NoToast
    /\ UNCHANGED <<uploadVars, photos, feed, listener, authPage, donatePage,
                   users, profilePages>>

\* -------------------------------------------------- UserProfileCompletion

\* The browser dispatches the submit event of the profile form: the submit
\* button is enabled and no input, both `required`, is empty.  One run of
\* handleSubmit per browser is followed at a time.
CanSubmitProfile(page) ==
    /\ page.mounted
    /\ ~page.isLoading
    /\ page.pc = "idle"
    /\ page.formData.username # EmptyInput
    /\ page.formData.phoneNumber # EmptyInput

\* The page is opened by a signed-in user whose profile is not complete (its
\* effect sends a user with a complete profile on to the home page); the
\* form starts from the userProfile of the context.
MountProfilePage(c) ==
    /\ ~profilePages[c].mounted
    /\ ~sessions[c].loading
    /\ sessions[c].currentUser # NoUser
    /\ ~IsProfileComplete(sessions[c].userProfile)
    /\ profilePages' =
           [profilePages EXCEPT ![c] =
               [@ EXCEPT !.mounted = TRUE,
                         !.isLoading = FALSE,
                         !.formData =
                             IF sessions[c].userProfile = Null
                             THEN InitProfilePage.formData
                             ELSE [username |->
                                       sessions[c].userProfile[1].username,
                                   phoneNumber |->
                                       sessions[c].userProfile[1].phoneNumber]]]
    /\ toast' = NoToast
    /\ UNCHANGED <<uploadVars, photos, feed, listener, authPage, donatePage,
                   sessions, users>>

\* handleInputChange: one field of the form is replaced by the cleaned input.
HandleProfileInput(c, name, value) ==
    /\ profilePages[c].mounted
    /\ profilePages[c].formData[name] # value
    /\ profilePages' = [profilePages EXCEPT ![c].formData[name] = value]
    /\ toast' = NoToast
    /\ UNCHANGED <<uploadVars, photos, feed, listener, authPage, donatePage,
                   sessions, users>>

\* The checks of validateForm before the username query: the toast.error
\* they end with, or NoToast.
UsernameChecks(formData) ==
    IF formData.username = EmptyInput THEN "username-required"
    ELSE IF Len(formData.username) < MinUsernameLength
    THEN "username-too-short"
    ELSE IF Len(formData.username) > MaxUsernameLength
    THEN "username-too-long"
    ELSE NoToast

\* The checks of validateForm after the username query.
PhoneChecks(formData) ==
    IF formData.phoneNumber = EmptyInput THEN "phone-required"
    ELSE IF Len(formData.phoneNumber) # PhoneNumberLength
    THEN "phone-invalid"
    ELSE NoToast

\* The username differs from the one of the profile in the context, so
\* validateForm asks whether it is taken.
NeedsUsernameQuery(run) ==
    \/ run.userProfile = Null
    \/ ToLowerCase(run.formData.username)
           # ToLowerCase(run.userProfile[1].username)

\* validateForm has found the username free (or its own): the phone checks,
\* then handleSubmit enters the loading state and calls setDoc on
\* users/<currentUser.uid>.  Without a current user that expression
\* throws, and the catch block reports the failure.
AfterUsernameCheck(page, run) ==
    IF PhoneChecks(run.formData) # NoToast
    THEN [page |-> [page EXCEPT !.pc = "idle", !.submitted = Null],
          toast |-> PhoneChecks(run.formData)]
    ELSE IF run.currentUser = NoUser
    THEN [page |-> [page EXCEPT !.pc = "idle", !.submitted = Null],
          toast |-> "profile-save-failed"]
    ELSE [page |-> [page EXCEPT !.pc = "setDoc",
                                !.isLoading = page.mounted],
          toast |-> NoToast]

\* handleSubmit up to its first await.  The run keeps the form data, the
\* current user and the userProfile of the render it was started in.
HandleProfileSubmit(c) ==
    /\ CanSubmitProfile(profilePages[c])
    /\ LET run == [formData |-> profilePages[c].formData,
                   currentUser |-> sessions[c].currentUser,
                   userProfile |-> sessions[c].userProfile]
           started == [profilePages[c] EXCEPT !.submitted = Some(run)]
       IN  IF UsernameChecks(run.formData) # NoToast
           THEN /\ toast' = UsernameChecks(run.formData)
                /\ profilePages' = profilePages
           ELSE IF NeedsUsernameQuery(run)
           THEN /\ toast' = NoToast
                /\ profilePages' =
                       [profilePages EXCEPT ![c] =
                           [started EXCEPT !.pc = "getDocs"]]
           ELSE /\ toast' = AfterUsernameCheck(started, run).toast
                /\ profilePages' =
                       [profilePages EXCEPT ![c] =
                           AfterUsernameCheck(started, run).page]
    /\ UNCHANGED <<uploadVars, photos, feed, listener, authPage, donatePage,
                   sessions, users>>

\* isUsernameTaken: some document of 'users' holds the lower-cased username;
\* false when the query failed.
IsUsernameTaken(username, ok) ==
    /\ ok
    /\ \E u \in Accounts :
           users[u] # Null /\ users[u][1].username = ToLowerCase(username)

\* The query of isUsernameTaken has answered (ok) or failed.
UsernameQueryReturns(c, ok) ==
    /\ profilePages[c].pc = "getDocs"
    /\ LET page == profilePages[c]
           run == page.submitted[1]
       IN  IF IsUsernameTaken(run.formData.username, ok)
           THEN /\ toast' = "username-taken"
                /\ profilePages' =
                       [profilePages EXCEPT ![c] =
                           [page EXCEPT !.pc = "idle", !.submitted = Null]]
           ELSE /\ toast' = AfterUsernameCheck(page, run).toast
                /\ profilePages' =
                       [profilePages EXCEPT ![c] =
                           AfterUsernameCheck(page, run).page]
    /\ UNCHANGED <<uploadVars, photos, feed, listener, authPage, donatePage,
                   sessions, users>>

\* setDoc resolves: the profile document is written; handleSubmit navigates
\* to the home page, which unmounts the form.  The userProfile of the
\* AuthProvider is left as it is.
SetDocResolves(c) ==
    /\ profilePages[c].pc = "setDoc"
    /\ LET run == profilePages[c].submitted[1]
       IN  users' = [users EXCEPT ![run.currentUser] =
                        Some(UserProfileData(run.currentUser, run.formData))]
    /\ profilePages' = [profilePages EXCEPT ![c] = InitProfilePage]
    /\ toast' = NoToast
    /\ UNCHANGED <<uploadVars, photos, feed, listener, authPage, donatePage,
                   sessions>>

\* setDoc rejects: the failure is reported and the loading state is left.
SetDocRejects(c) ==
    /\ profilePages[c].pc = "setDoc"
    /\ profilePages' = [profilePages EXCEPT ![c] =
                           [@ EXCEPT !.pc = "idle",
                                     !.isLoading = FALSE,
                                     !.submitted = Null]]
    /\ toast' = "profile-save-failed"
    /\ UNCHANGED <<uploadVars, photos, feed, listener, authPage, donatePage,
                   sessions, users>>

\* What ProtectedRoute renders for a route that requires a profile.
ProtectedRoute(session) ==
    IF session.loading THEN "loading"
    ELSE IF session.currentUser = NoUser THEN "/auth"
    ELSE IF ~IsProfileComplete(session.userProfile) THEN "/complete-profile"
    ELSE "children"

\* ---------------------------------------------------------- specifications

\* What both specifications share: opening and dismissing the modal, the file
\* picker, the form fields, the submit and warning steps and the providers'
\* answers to an upload attempt.
Common ==
    \/ HandleCameraClick
    \/ \E f \in PickerFiles : HandleFileSelect(f)
    \/ RemoveImage
    \/ \E t \in DescInputs : SetDescription(t)
    \/ HandleClose
    \/ ClickSharePhoto
    \/ CancelWarning
    \/ \E i \in DOMAIN attempts : UploadBytesResolves(i)
    \/ \E i \in DOMAIN attempts : UploadBytesRejects(i)
    \/ \E i \in DOMAIN attempts : GetDownloadURLResolves(i)
    \/ \E i \in DOMAIN attempts : GetDownloadURLRejects(i)
    \/ \E i \in DOMAIN attempts : AddDocResolves(i)
    \/ \E i \in DOMAIN attempts : AddDocRejects(i)

\* Spec: the orchestrator and the geolocation probe for a user who takes the
\* image from the file picker.  Sign-in and sign-out arrive at any time, the
\* browser may lack geolocation, the device reports either position and the
\* location button can be pressed again before the first answer.
Next ==
    \/ Common
    \/ \E u \in Users \cup {NoUser} : AuthStateChanged(u)
    \/ ToggleAnonymous
    \/ GetCurrentLocation(MaxProbes)
    \/ \E mounted \in BOOLEAN, p \in Coords : PositionSuccess(mounted, p)
    \/ \E mounted \in BOOLEAN : PositionError(mounted)
    \/ ConfirmUpload(MaxAttempts)

Spec == Init /\ [][Next]_vars

\* FlowSpec: the whole modal, camera included, for a user who stays signed
\* in on a device with geolocation that reports one position.
FlowInit ==
    /\ Init
    /\ currentUser \in Users
    /\ geolocationSupported

FlowNext ==
    \/ Common
    \/ StartCamera(MaxCameraRequests)
    \/ \E mounted \in BOOLEAN : GetUserMediaResolves(mounted, MaxStreams)
    \/ \E mounted \in BOOLEAN : GetUserMediaRejects(mounted)
    \/ VideoError
    \/ ClickStopCamera
    \/ CapturePhoto
    \/ \E c \in pendingCapture : ToBlobCallback(c)
    \/ GetCurrentLocation(FlowProbes)
    \/ \E mounted \in BOOLEAN : PositionSuccess(mounted, "P1")
    \/ \E mounted \in BOOLEAN : PositionError(mounted)
    \/ ConfirmUpload(FlowAttempts)

FlowSpec == FlowInit /\ [][FlowNext]_vars

\* The providers answer: a call to uploadBytes, getDownloadURL or addDoc
\* that has been made is eventually resolved or rejected.
ProviderAnswers(i) ==
    /\ i \in DOMAIN attempts
    /\ \/ UploadBytesResolves(i)
       \/ UploadBytesRejects(i)
       \/ GetDownloadURLResolves(i)
       \/ GetDownloadURLRejects(i)
       \/ AddDocResolves(i)
       \/ AddDocRejects(i)

FairFlowSpec ==
    FlowSpec /\ \A i \in 1..FlowAttempts : WF_vars(ProviderAnswers(i))

FairSpec ==
    Spec /\ \A i \in 1..MaxAttempts : WF_vars(ProviderAnswers(i))

\* ReopenSpec: a signed-in user with the file picker who may dismiss the
\* modal and open it again while an upload is running, and so can press
\* Confirm & Post a second time.
ReopenNext ==
    \/ Common
    \/ GetCurrentLocation(FlowProbes)
    \/ \E mounted \in BOOLEAN : PositionSuccess(mounted, "P1")
    \/ \E mounted \in BOOLEAN : PositionError(mounted)
    \/ ConfirmUpload(ReopenAttempts)

ReopenSpec == FlowInit /\ [][ReopenNext]_vars

\* CameraSpec: the camera of the modal alone, for a signed-in user who may
\* press Take Photo again while the permission request is pending, retry
\* after a playback error, and dismiss the modal at any time.
CameraNext ==
    \/ HandleCameraClick
    \/ HandleClose
    \/ StartCamera(CameraRequests)
    \/ \E mounted \in BOOLEAN : GetUserMediaResolves(mounted, CameraStreams)
    \/ \E mounted \in BOOLEAN : GetUserMediaRejects(mounted)
    \/ VideoError
    \/ ClickStopCamera
    \/ CapturePhoto
    \/ \E c \in pendingCapture : ToBlobCallback(c)

CameraSpec == FlowInit /\ [][CameraNext]_vars

\* FeedSpec: the feed of a signed-in user over a collection that is empty,
\* one short of a page or a full page, while uploads add documents and the
\* feed is mounted and unmounted.
FeedInit ==
    /\ currentUser \in Users
    /\ geolocationSupported = TRUE
    /\ showUploadModal = FALSE
    /\ modal = InitModal
    /\ probes = NoRequests
    /\ cameraRequests = NoRequests
    /\ liveStreams = {}
    /\ pendingCapture = {}
    /\ attempts = <<>>
    /\ storage = {}
    /\ \E n \in {0, PageSize - 1, PageSize} : photos = ExistingDocs(n)
    /\ toast = NoToast
    /\ feed = InitFeed
    /\ listener = "off"
    /\ authPage = InitAuthPage
    /\ donatePage = InitDonatePage
    /\ sessions = [c \in Clients |-> InitSession]
    /\ users = [u \in Accounts |-> Null]
    /\ profilePages = [c \in Clients |-> InitProfilePage]

FeedNext ==
    \/ MountFeed
    \/ UnmountFeed
    \/ SnapshotDelivered
    \/ SnapshotError
    \/ \E id \in NewDocIds : AddDoc(id, MaxNewDocs)

FeedSpec == FeedInit /\ [][FeedNext]_vars

\* AuthSpec: the AuthPage of a visitor who types, switches between sign-in
\* and sign-up and submits, with a provider that resolves or rejects.
AuthNext ==
    \/ \E name \in {"email"}, value \in EmailInputs :
           HandleInputChange(name, value)
    \/ \E name \in {"password", "confirmPassword"}, value \in PasswordInputs :
           HandleInputChange(name, value)
    \/ ToggleSignUp
    \/ HandleEmailAuth(MaxAuthCalls)
    \/ HandleGoogleSignIn(MaxAuthCalls)
    \/ \E u \in Accounts : AuthCallResolves(u)
    \/ AuthCallRejects

AuthSpec == Init /\ [][AuthNext]_vars

\* DonateSpec: a donor who picks and types amounts and pays.
DonateNext ==
    \/ \E amount \in predefinedAmounts : HandleAmountSelect(amount)
    \/ \E value \in AmountInputs : HandleCustomAmount(value)
    \/ RazorpayScriptLoads
    \/ HandleDonate(MaxPayments)
    \/ PaymentSucceeds
    \/ CheckoutDismissed
    \/ DonateAgain

DonateSpec == Init /\ [][DonateNext]_vars

\* ProviderSpec: the AuthProvider of one browser from its mount, with
\* sign-ins, sign-outs and user switches arriving at any time (from this tab
\* or another one) and profile fetches that return in any order.
ProviderInit ==
    /\ currentUser = NoUser
    /\ geolocationSupported = TRUE
    /\ showUploadModal = FALSE
    /\ modal = InitModal
    /\ probes = NoRequests
    /\ cameraRequests = NoRequests
    /\ liveStreams = {}
    /\ pendingCapture = {}
    /\ attempts = <<>>
    /\ storage = {}
    /\ photos = {}
    /\ toast = NoToast
    /\ feed = InitFeed
    /\ listener = "off"
    /\ authPage = InitAuthPage
    /\ donatePage = InitDonatePage
    /\ sessions = [c \in Clients |-> InitSession]
    /\ users \in InitialUsers
    /\ profilePages = [c \in Clients |-> InitProfilePage]

ProviderNext ==
    \/ \E u \in Accounts \cup {NoUser} :
           OnAuthStateChanged(MainClient, u, MaxFetches)
    \/ \E i \in 1..MaxFetches, ok \in BOOLEAN :
           FetchUserProfileReturns(MainClient, i, ok)

ProviderSpec == ProviderInit /\ [][ProviderNext]_vars

\* SignInSpec: an existing user signs in on AuthPage, with Google or with
\* email and password, under the AuthProvider of ProviderSpec.
SignInNext ==
    \/ \E value \in EmailInputs \ {EmptyInput} :
           HandleInputChange("email", value)
    \/ HandleInputChange("password", <<"s", "e", "c", "r", "e", "t">>)
    \/ HandleEmailAuth(MaxAuthCalls)
    \/ HandleGoogleSignIn(MaxAuthCalls)
    \/ \E u \in Accounts : AuthCallResolves(u)
    \/ AuthCallRejects
    \/ ProviderNext

SignInSpec == ProviderInit /\ [][SignInNext]_vars

\* CompletionSpec: two browsers, u1 signed in in one and u2 in the other,
\* both without a profile and their auth-state callbacks completed, on the
\* profile completion page; no further auth-state change arrives.
SignedInSession(u) ==
    [InitSession EXCEPT !.currentUser = u, !.loading = FALSE, !.started = TRUE]

UserOf(c) == IF c = MainClient THEN "u1" ELSE "u2"

CompletionInit ==
    /\ currentUser = UserOf(MainClient)
    /\ geolocationSupported = TRUE
    /\ showUploadModal = FALSE
    /\ modal = InitModal
    /\ probes = NoRequests
    /\ cameraRequests = NoRequests
    /\ liveStreams = {}
    /\ pendingCapture = {}
    /\ attempts = <<>>
    /\ storage = {}
    /\ photos = {}
    /\ toast = NoToast
    /\ feed = InitFeed
    /\ listener = "off"
    /\ authPage = InitAuthPage
    /\ donatePage = InitDonatePage
    /\ sessions = [c \in Clients |-> SignedInSession(UserOf(c))]
    /\ users = [u \in Accounts |-> Null]
    /\ profilePages = [c \in Clients |-> InitProfilePage]

\* What each user types: u1 "an" or "ann", u2 "Ann" or "bob".
TypedBy(c) ==
    IF c = MainClient THEN {<<"a", "n">>, <<"a", "n", "n">>}
    ELSE {<<"A", "n", "n">>, <<"b", "o", "b">>}

ProfileStep(c) ==
    \/ MountProfilePage(c)
    \/ \E value \in TypedBy(c) : HandleProfileInput(c, "username", value)
    \/ HandleProfileInput(c, "phoneNumber", TenDigits)
    \/ HandleProfileSubmit(c)
    \/ \E ok \in BOOLEAN : UsernameQueryReturns(c, ok)
    \/ SetDocResolves(c)
    \/ SetDocRejects(c)

CompletionNext == \E c \in Clients : ProfileStep(c)

CompletionSpec == CompletionInit /\ [][CompletionNext]_vars

\* The database answers: a username query or a profile write that has been
\* made is eventually answered.
DatabaseAnswers(c) ==
    \/ \E ok \in BOOLEAN : UsernameQueryReturns(c, ok)
    \/ SetDocResolves(c)
    \/ SetDocRejects(c)

FairCompletionSpec ==
    CompletionSpec /\ \A c \in Clients : WF_vars(DatabaseAnswers(c))

\* ------------------------------------------------------------ Properties

Positions == {[latitude |-> Latitude(p), longitude |-> Longitude(p)] : p \in Coords}

CallsMade(a) == {a.calls[k] : k \in DOMAIN a.calls}

InFlight(a) == a.pc \in {"uploadBytes", "getDownloadURL", "addDoc"}

HasImageAndLocation(m) == m.selectedFile # NoFile /\ m.location # NoLocation

\* C1: every document confirmUpload has written carries the download URL and
\* the storage path of a stored blob, a location with the latitude and the
\* longitude of a reported position, and a description that is absent or at
\* most DescriptionMaxLength characters long.
C1_PostsWellFormed ==
    \A d \in photos :
        /\ d.imagePath \in storage
        /\ d.imageURL = DownloadURL(d.imagePath)
        /\ d.location \in Positions
        /\ \/ d.description = <<>>
           \/ /\ Len(d.description) = 1
              /\ TextLength(d.description[1]) >= 1
              /\ TextLength(d.description[1]) <= DescriptionMaxLength

C1_Witness ==
    \E d \in photos, t \in DescInputs :
        /\ TextLength(t) > DescriptionMaxLength
        /\ d.description = <<Trim(Truncate(t, DescriptionMaxLength))>>
        /\ d.imagePath \in storage

\* C2: a click on Share Photo opens the responsibility warning exactly when
\* an image and a location are held and no upload is running; in every
\* other combination the click is dead or leaves the warning closed, and
\* nothing else opens the warning.
C2_SubmitOpensWarningIffReady ==
    /\ [](FormUsable =>
            IF HasImageAndLocation(modal) /\ ~modal.isUploading
            THEN ENABLED (ClickSharePhoto /\ modal'.showWarning)
            ELSE ~ENABLED (ClickSharePhoto /\ modal'.showWarning))
    /\ [][(~modal.showWarning /\ modal'.showWarning) =>
             /\ FormUsable
             /\ HasImageAndLocation(modal)
             /\ ~modal.isUploading
             /\ modal' = [modal EXCEPT !.showWarning = TRUE]]_vars

C2_Witness ==
    /\ showUploadModal
    /\ modal.showWarning
    /\ HasImageAndLocation(modal)

\* C3: a blob write or a document write is started only by an upload that
\* is running: a new upload starts only from the open warning, with image
\* and location held, and leaves the modal busy; a document write is started
\* only by an upload in flight, whose modal, if still mounted, is busy.  The
\* modal turns busy only through Confirm & Post in the warning, and Cancel in
\* the warning starts nothing.
C3_WritesOnlyWhileUploading ==
    /\ [][/\ Len(attempts') >= Len(attempts)
          /\ Len(attempts') <= Len(attempts) + 1
          /\ Len(attempts') = Len(attempts) + 1 =>
                /\ showUploadModal
                /\ modal.showWarning
                /\ HasImageAndLocation(modal)
                /\ modal'.isUploading
                /\ CallsMade(attempts'[Len(attempts')]) = {"uploadBytes"}
          /\ \A i \in DOMAIN attempts :
                attempts'[i].calls # attempts[i].calls =>
                    /\ InFlight(attempts[i])
                    /\ attempts[i].mounted => modal.isUploading
                    /\ \E c \in {"getDownloadURL", "addDoc"} :
                           attempts'[i].calls = Append(attempts[i].calls, c)
          /\ (~modal.isUploading /\ modal'.isUploading) =>
                /\ modal.showWarning
                /\ Len(attempts') = Len(attempts) + 1
          /\ (/\ modal.showWarning
              /\ showUploadModal'
              /\ ~modal'.showWarning
              /\ ~modal'.isUploading) =>
                /\ attempts' = attempts
                /\ storage' = storage
                /\ photos' = photos]_vars
    /\ [](\A i \in DOMAIN attempts :
             (InFlight(attempts[i]) /\ attempts[i].mounted) =>
                 showUploadModal /\ modal.isUploading)

C3_Witness ==
    \E i \in DOMAIN attempts :
        /\ attempts[i].pc = "addDoc"
        /\ attempts[i].mounted
        /\ modal.isUploading

\* C4: the document write of an upload is started only after its blob write
\* and its download URL lookup have completed: the calls are made in the
\* order uploadBytes, getDownloadURL, addDoc, each after the one before it
\* has resolved, and the blob is in storage when addDoc is called.
C4_BlobBeforeDocument ==
    \A i \in DOMAIN attempts :
        LET a == attempts[i]
        IN  /\ \E n \in 1..3 :
                 a.calls = SubSeq(<<"uploadBytes", "getDownloadURL", "addDoc">>,
                                  1, n)
            /\ "getDownloadURL" \in CallsMade(a) => "uploadBytes" \in a.resolved
            /\ "addDoc" \in CallsMade(a) =>
                   /\ {"uploadBytes", "getDownloadURL"} \subseteq a.resolved
                   /\ a.filename \in storage

C4_Witness ==
    \E i \in DOMAIN attempts :
        /\ attempts[i].pc = "addDoc"
        /\ attempts[i].filename \in storage

\* C5: an upload whose blob write or download URL lookup was rejected never
\* calls addDoc, writes no document, and ends failed.
C5_NoDocumentAfterBlobFailure ==
    \A i \in DOMAIN attempts :
        attempts[i].rejected \cap {"uploadBytes", "getDownloadURL"} # {} =>
            /\ "addDoc" \notin CallsMade(attempts[i])
            /\ attempts[i].pc = "failed"
            /\ \A d \in photos : d.id # i

C5_Witness ==
    /\ toast = "upload-failed"
    /\ \E i \in DOMAIN attempts : "getDownloadURL" \in attempts[i].rejected
    /\ photos = {}

\* The step in which addDoc of attempt i rejects.
DocumentWriteFails(i) ==
    /\ attempts[i].pc = "addDoc"
    /\ attempts'[i].pc = "failed"

\* The step in which addDoc of attempt i resolves.
DocumentWriteSucceeds(i) ==
    /\ attempts[i].pc = "addDoc"
    /\ attempts'[i].pc = "succeeded"

\* C6, as the specification states it: when the document write fails after
\* the blob write succeeded, an error is shown, the image, preview, location,
\* description and anonymity flag held when the upload started are all still
\* held, the modal is open, not busy, with the warning closed and the submit
\* button enabled, no document exists for the upload, and the blob stays in
\* storage.
C6_InputsOfTheAttemptHeldAfterFailure ==
    [][\A i \in DOMAIN attempts :
          DocumentWriteFails(i) =>
              /\ toast' = "upload-failed"
              /\ showUploadModal'
              /\ modal'.selectedFile = attempts[i].file
              /\ modal'.preview = CreateObjectURL(attempts[i].file)
              /\ modal'.location = attempts[i].location
              /\ modal'.description = attempts[i].description
              /\ modal'.isAnonymous = attempts[i].isAnonymous
              /\ ~modal'.isUploading
              /\ ~modal'.showWarning
              /\ ~SubmitDisabled(modal')
              /\ \A d \in photos' : d.id # i
              /\ attempts[i].filename \in storage']_vars

\* C6, as the code behaves: when the document write fails after the blob
\* write succeeded, an error is shown, no document is written, the blob stays
\* in storage, and the failure handling changes none of image, preview,
\* location, description and anonymity flag and neither resets nor closes
\* the modal.  If the modal of the upload is still mounted it stops being
\* busy with the warning closed, and the submit button is enabled exactly
\* when an image and a location are still held; what is held is what the
\* user left there while the upload ran.
C6_FailureKeepsTheForm ==
    [][\A i \in DOMAIN attempts :
          DocumentWriteFails(i) =>
              /\ toast' = "upload-failed"
              /\ photos' = photos
              /\ \A d \in photos' : d.id # i
              /\ storage' = storage
              /\ attempts[i].filename \in storage'
              /\ showUploadModal' = showUploadModal
              /\ IF attempts[i].mounted
                 THEN /\ showUploadModal
                      /\ modal.isUploading
                      /\ modal' = [modal EXCEPT !.isUploading = FALSE]
                      /\ ~modal'.showWarning
                      /\ ~SubmitDisabled(modal') <=> HasImageAndLocation(modal)
                 ELSE modal' = modal]_vars

C6_Witness ==
    /\ toast = "upload-failed"
    /\ \E i \in DOMAIN attempts : "addDoc" \in attempts[i].rejected
    /\ showUploadModal
    /\ ~SubmitDisabled(modal)
    /\ photos = {}
    /\ storage # {}

\* C7: when the blob write and the document write both succeed, the image,
\* preview, location, description and anonymity flag are reset, the busy
\* state is left and onClose closes the modal: the orchestrator is idle with
\* its initial state.
C7_SuccessResetsAndCloses ==
    [][\A i \in DOMAIN attempts :
          DocumentWriteSucceeds(i) =>
              /\ PhotoData(attempts[i], i) \in photos'
              /\ ~showUploadModal'
              /\ modal'.selectedFile = NoFile
              /\ modal'.preview = NoPreview
              /\ modal'.location = NoLocation
              /\ modal'.description = EmptyText
              /\ ~modal'.isAnonymous
              /\ ~modal'.isUploading
              /\ ~modal'.showWarning]_vars

C7_Witness ==
    /\ \E i \in DOMAIN attempts : attempts[i].pc = "succeeded"
    /\ photos # {}
    /\ ~showUploadModal
    /\ modal = InitModal

\* C10, as the specification states it: within one mounted modal the held
\* coordinate is assigned at most once; once a fix is held no answer of a
\* probe changes it.
C10_FixAssignedOnce ==
    [][(/\ showUploadModal
        /\ showUploadModal'
        /\ modal.location # NoLocation
        /\ probes' # probes) => modal'.location = modal.location]_vars

\* What an upload in flight is made of, apart from whether its modal is
\* still mounted.
Progress(a) == [a EXCEPT !.mounted = TRUE]

\* The step in which the provider answers the call attempt i waits for.
Answered(i) ==
    /\ attempts'[i].pc # attempts[i].pc
    /\ (attempts'[i].resolved \cup attempts'[i].rejected) =
           (attempts[i].resolved \cup attempts[i].rejected) \cup {attempts[i].pc}

\* C8: once an upload has started nothing the user does cancels it: closing
\* the modal, discarding the image, opening or stopping the camera and
\* editing the inputs leave an upload in flight as it is, and only an answer
\* of the provider moves it on.  The blob write is attempted and, once it
\* and the URL lookup have succeeded, the document write is attempted; with
\* providers that answer, every upload ends succeeded or failed.
C8_UploadRunsToCompletion ==
    /\ [][\A i \in DOMAIN attempts :
             InFlight(attempts[i]) =>
                 \/ Progress(attempts'[i]) = Progress(attempts[i])
                 \/ Answered(i)]_vars
    /\ [](\A i \in DOMAIN attempts :
             /\ "uploadBytes" \in CallsMade(attempts[i])
             /\ {"uploadBytes", "getDownloadURL"} \subseteq attempts[i].resolved
                    => "addDoc" \in CallsMade(attempts[i])
             /\ attempts[i].pc = "succeeded" <=> "addDoc" \in attempts[i].resolved
             /\ attempts[i].pc = "failed" <=> attempts[i].rejected # {})
    /\ \A i \in 1..FlowAttempts :
           (i \in DOMAIN attempts /\ InFlight(attempts[i]))
               ~> (i \in DOMAIN attempts
                      /\ attempts[i].pc \in {"succeeded", "failed"})

C8_Witness ==
    \E i \in DOMAIN attempts :
        /\ attempts[i].pc = "addDoc"
        /\ ~attempts[i].mounted
        /\ showUploadModal
        /\ modal.showCamera

\* C9, as the specification states it: whenever the camera view is left, by
\* capturing a photo, by stopping the camera or by the modal going away, no
\* media stream the modal acquired has an active track afterwards.
C9_NoActiveTracksAfterCamera ==
    [][(/\ showUploadModal
        /\ modal.showCamera
        /\ ~(showUploadModal' /\ modal'.showCamera)) => liveStreams' = {}]_vars

\* C11: a geolocation probe that fails, because the browser has no
\* geolocation or because getCurrentPosition reports an error, leaves the
\* held coordinate and the rest of the form as they were; the submit button
\* stays disabled unless a fix was already held.
C11_ProbeFailureKeepsLocation ==
    [][toast' \in {"geolocation-unsupported", "location-failed"} =>
          /\ modal' = modal
          /\ showUploadModal' = showUploadModal
          /\ modal.location = NoLocation => SubmitDisabled(modal')]_vars

C11_Witness ==
    /\ toast = "location-failed"
    /\ showUploadModal
    /\ modal.location # NoLocation

\* C12: selecting a file whose type is not an image type raises an error
\* and changes nothing: the held image and the preview are what they were.
C12_NonImageRejected ==
    [][toast' = "not-image" =>
          /\ modal' = modal
          /\ modal'.selectedFile = modal.selectedFile
          /\ modal'.preview = modal.preview
          /\ \A f \in PickerFiles : modal'.selectedFile = f => IsImageType(FileType(f))]_vars

C12_Witness ==
    /\ toast = "not-image"
    /\ modal.selectedFile = PngFile
    /\ modal.preview = CreateObjectURL(PngFile)

\* C13, as the specification states it: in every state the held image and
\* its preview are both present or both absent, and the preview is the one
\* made from the held image.
C13_ImageAndPreviewPaired ==
    /\ modal.selectedFile = NoFile <=> modal.preview = NoPreview
    /\ modal.selectedFile # NoFile =>
           modal.preview = CreateObjectURL(modal.selectedFile)

\* C14: every press of Confirm & Post leaves the busy state again: at once
\* when no user is signed in, and otherwise when the run it started ends, by
\* success, by a failed blob write or URL lookup, or by a failed document
\* write.  The modal is busy only while a run of its own is in flight, the
\* step that ends that run clears the flag, and with providers that answer
\* a busy modal always stops being busy.
C14_BusyStateIsLeft ==
    /\ [](modal.isUploading =>
             /\ showUploadModal
             /\ \E i \in DOMAIN attempts :
                    InFlight(attempts[i]) /\ attempts[i].mounted)
    /\ [][/\ toast' = "sign-in-required" => ~modal'.isUploading
          /\ \A i \in DOMAIN attempts :
                (/\ InFlight(attempts[i])
                 /\ attempts[i].mounted
                 /\ ~InFlight(attempts'[i])) => ~modal'.isUploading]_vars
    /\ modal.isUploading ~> ~modal.isUploading

C14_Witness ==
    /\ toast = "upload-failed"
    /\ showUploadModal
    /\ ~modal.isUploading
    /\ \E i \in DOMAIN attempts : "uploadBytes" \in attempts[i].rejected

\* ImageCard's poster line:
\* post.isAnonymous ? 'Anonymous User' : (post.userName || 'Unknown User')
CardLabel(post) ==
    IF post.isAnonymous THEN <<"Anonymous User">>
    ELSE IF "userName" \in DOMAIN post /\ post.userName # <<>>
    THEN post.userName
    ELSE <<"Unknown User">>

\* C15: every document written stores the id of the submitting account,
\* with its e-mail address and username, whatever the anonymity flag is:
\* the document of an upload with the flag set differs from the document the
\* same upload would write with the flag clear in the field isAnonymous
\* only.
C15_OwnerStoredWhateverAnonymity ==
    /\ \A d \in photos :
           /\ d.userId \in Users
           /\ d.userId = attempts[d.id].user
           /\ d.userEmail = Email(d.userId)
           /\ d.username = StoredUsername(ProfileUsername(d.userId),
                                          DisplayName(d.userId))
    /\ \A i \in DOMAIN attempts :
           attempts[i].pc = "addDoc" =>
               \A b \in BOOLEAN :
                   PhotoData([attempts[i] EXCEPT !.isAnonymous = b], i) =
                       [PhotoData(attempts[i], i) EXCEPT !.isAnonymous = b]

C15_Witness ==
    \E d \in photos : d.isAnonymous /\ d.userId \in Users

\* C16, as the specification states it: the card of a document written by
\* confirmUpload shows the placeholder label when the document is anonymous
\* and the username stored in the document when it is not.
C16_CardShowsStoredName ==
    \A d \in photos :
        CardLabel(d) = IF d.isAnonymous THEN <<"Anonymous User">> ELSE d.username

\* The posts the feed is to hold: the n most recently created ones.
MostRecent(docs, n) ==
    {d \in docs : Cardinality({e \in docs : e.createdAt > d.createdAt}) < n}

\* The feed has the snapshot that follows the latest change of the collection.
FeedUpToDate == listener = "current"

\* C17: once the snapshot after a change of the collection is delivered, the
\* feed holds the most recently created posts, at most PageSize of them (the
\* PageSize newest when there are more), each once, ordered newest-first.
C17_FeedHoldsNewestFirst ==
    FeedUpToDate =>
        /\ Len(feed.photos) = Min(Cardinality(photos), PageSize)
        /\ {feed.photos[k] : k \in DOMAIN feed.photos}
               = MostRecent(photos, PageSize)
        /\ \A j, k \in DOMAIN feed.photos :
               j < k => feed.photos[j].createdAt > feed.photos[k].createdAt

\* C18: a post written by an upload is delivered to the mounted feed: once
\* the snapshot after the write is delivered, the feed lists every post
\* written while it was observed that is among the PageSize most recent.
C18_NewPostDelivered ==
    FeedUpToDate =>
        \A d \in MostRecent(photos, PageSize) :
            d.id \in NewDocIds =>
                \E k \in DOMAIN feed.photos : feed.photos[k].id = d.id

\* The provider calls of the email form.
EmailAuthCalls == {"signUpWithEmail", "signInWithEmail"}

\* C19: a submit in sign-up mode whose password and confirmation differ ends
\* with the "passwords do not match" error, and a submit in either mode whose
\* password is shorter than MinPasswordLength ends with an error; such a
\* submit changes nothing on the page, so it makes no provider call and does
\* not enter the loading state.  Conversely, a call of the email form is made
\* only with a password of full length that, in sign-up mode, equals its
\* confirmation.
C19_InvalidSubmitBlocked ==
    [][/\ HandleEmailAuth(MaxAuthCalls) =>
            /\ (authPage.isSignUp /\ authPage.formData.password
                                        # authPage.formData.confirmPassword)
                   => toast' = "passwords-do-not-match" /\ authPage' = authPage
            /\ Len(authPage.formData.password) < MinPasswordLength
                   => toast' # NoToast /\ authPage' = authPage
       /\ (authPage'.calls # authPage.calls
               /\ authPage'.pending \in EmailAuthCalls) =>
            /\ Len(authPage.formData.password) >= MinPasswordLength
            /\ authPage.isSignUp
                   => authPage.formData.password
                          = authPage.formData.confirmPassword
            /\ authPage'.isLoading]_vars

\* A sign-up submit with differing passwords of full length was blocked.
C19_Witness ==
    /\ toast = "passwords-do-not-match"
    /\ Len(authPage.formData.password) >= MinPasswordLength
    /\ authPage.calls = <<>>
    /\ ~authPage.isLoading

\* C20: whenever the custom amount input holds a value, that value does not
\* exceed MaxDonationAmount: an input above it was rejected and left the
\* custom amount and the selected amount as they were.
C20_CustomAmountWithinMaximum ==
    ~ValueExceeds(donatePage.customAmount, MaxDonationAmount)

\* AuthProvider renders its children: {!loading && children}.
ChildrenRendered(c) == ~sessions[c].loading

\* The first auth-state callback of the provider has run to its end.
FirstCallbackCompleted(c) ==
    /\ sessions[c].started
    /\ \A i \in DOMAIN sessions[c].fetches : ~sessions[c].fetches[i].first

\* C21: the children are rendered only after the first auth-state callback
\* has run to its end, its profile fetch included.
C21_ChildrenAfterFirstCallback ==
    ChildrenRendered(MainClient) => FirstCallbackCompleted(MainClient)

\* C25: userProfile is non-null only if currentUser is non-null and the
\* profile is the one of that user.
C25_ProfileBelongsToCurrentUser ==
    \A c \in Clients :
        sessions[c].userProfile # Null =>
            /\ sessions[c].currentUser # NoUser
            /\ sessions[c].userProfile[1].uid = sessions[c].currentUser

\* The provider calls that sign an existing user in.
SignInCalls == {"signInWithGoogle", "signInWithEmail"}

\* C22: when a Google or email/password sign-in resolves, the page navigates
\* to the home page if the profile of the user who signed in is complete and
\* to /complete-profile if it is not.
C22_SignInRouteFollowsProfile ==
    [][\A u \in Accounts :
          (authPage.pending \in SignInCalls /\ AuthCallResolves(u)) =>
              authPage'.route = IF IsProfileComplete(users[u])
                                THEN "/" ELSE "/complete-profile"]_vars

\* The step starts the provider call `call` in some upload attempt.
Initiates(call) ==
    \/ /\ Len(attempts') = Len(attempts) + 1
       /\ call \in CallsMade(attempts'[Len(attempts')])
    \/ \E i \in DOMAIN attempts :
           /\ i \in DOMAIN attempts'
           /\ attempts'[i].calls = Append(attempts[i].calls, call)

\* The inputs the form holds.
HeldInputs(m) ==
    <<m.selectedFile, m.preview, m.location, m.description, m.isAnonymous>>

\* C23: no blob write (uploadBytes) and no document write (addDoc) is started
\* while no user is signed in; the modal is opened only by a signed-in user;
\* and Confirm & Post pressed with no current user reports the sign-in
\* error, writes nothing and leaves the held inputs unchanged.
C23_NoWriteWithoutUser ==
    [][/\ (Initiates("uploadBytes") \/ Initiates("addDoc")) =>
              currentUser # NoUser
       /\ (~showUploadModal /\ showUploadModal') => currentUser # NoUser
       /\ (currentUser = NoUser /\ ConfirmUpload(MaxAttempts)) =>
              /\ toast' = "sign-in-required"
              /\ attempts' = attempts
              /\ storage' = storage
              /\ photos' = photos
              /\ HeldInputs(modal') = HeldInputs(modal)]_vars

\* C24: no two profile documents hold the same username.
C24_UsernamesUnique ==
    \A a, b \in Accounts :
        (a # b /\ users[a] # Null /\ users[b] # Null) =>
            users[a][1].username # users[b][1].username

\* C26: once the profile of u1 has been saved, isProfileComplete() in the
\* browser of u1 eventually returns true, and a route that requires a
\* profile renders its content, while no auth-state change arrives.
C26_SavedProfileBecomesComplete ==
    (users[UserOf(MainClient)] # Null) ~>
        /\ IsProfileComplete(sessions[MainClient].userProfile)
        /\ ProtectedRoute(sessions[MainClient]) = "children"

\* The upload attempts with a blob write or a document write pending.
AttemptsInFlight == {i \in DOMAIN attempts : InFlight(attempts[i])}

\* C27: at most one upload attempt is in flight at any time.
C27_OneAttemptInFlight == Cardinality(AttemptsInFlight) <= 1

\* The values a run of confirmUpload holds from the press of Confirm & Post.
ConfirmedValues(a) ==
    <<a.user, a.file, a.location, a.description, a.isAnonymous, a.filename>>

\* Document d carries the image path, location, description and anonymity
\* flag of attempt a.
WrittenFrom(d, a) ==
    /\ d.imagePath = a.filename
    /\ d.location = [latitude |-> Latitude(a.location),
                     longitude |-> Longitude(a.location)]
    /\ d.description = IF TextLength(Trim(a.description)) = 0
                       THEN <<>>
                       ELSE <<Trim(a.description)>>
    /\ d.isAnonymous = a.isAnonymous

\* C28: an attempt starts with the image, location, description and
\* anonymity flag of the form at the press of Confirm & Post and keeps them
\* while it is in flight; the blob written is the one named after that image
\* and the document written carries those values, whatever the form holds
\* by then.
C28_WritesUseConfirmedValues ==
    [][/\ \A i \in DOMAIN attempts' \ DOMAIN attempts :
              /\ attempts'[i].file = modal.selectedFile
              /\ attempts'[i].location = modal.location
              /\ attempts'[i].description = modal.description
              /\ attempts'[i].isAnonymous = modal.isAnonymous
              /\ attempts'[i].filename[4] = modal.selectedFile
       /\ \A i \in DOMAIN attempts :
              InFlight(attempts[i]) /\ InFlight(attempts'[i]) =>
                  ConfirmedValues(attempts'[i]) = ConfirmedValues(attempts[i])
       /\ \A f \in storage' \ storage :
              \E i \in DOMAIN attempts :
                  /\ attempts[i].pc = "uploadBytes"
                  /\ f = attempts[i].filename
                  /\ f[4] = attempts[i].file
       /\ \A d \in photos' \ photos :
              \E i \in DOMAIN attempts :
                  /\ attempts[i].pc = "addDoc"
                  /\ d.id = i
                  /\ WrittenFrom(d, attempts[i])]_vars

\* The document write of an attempt is pending, its blob is stored, and by
\* now the preview is discarded and the description and the anonymity flag of
\* the form differ from the ones confirmed.
C28_Witness ==
    \E i \in DOMAIN attempts :
        /\ attempts[i].pc = "addDoc"
        /\ attempts[i].filename \in storage
        /\ showUploadModal
        /\ modal.selectedFile = NoFile
        /\ modal.description # attempts[i].description
        /\ modal.isAnonymous # attempts[i].isAnonymous

\* C29: every media stream with a live track is the stream held in the
\* modal's state.
C29_LiveStreamIsHeld == liveStreams \subseteq {modal.stream}

\* C30: the amount of an open checkout is a positive whole number of rupees
\* not above MaxDonationAmount (the checkout is given it in paise), and a
\* checkout is open only while the page is processing.
C30_PaymentAmountValid ==
    donatePage.checkout.open =>
        /\ donatePage.isProcessing
        /\ donatePage.checkout.amount # NaN
        /\ donatePage.checkout.amount[1] > 0
        /\ donatePage.checkout.amount[1] % 100 = 0
        /\ donatePage.checkout.amount[1] <= MaxDonationAmount * 100

====
